---- MODULE Spec2Model ----
(***************************************************************************)
(* Model of the database-multi-connection service:                         *)
(*   app/utils/hash_verifier.py   credential codec                         *)
(*   app/db/connector.py          connector factory                        *)
(*   app/db/*_connector.py        connectors                               *)
(*   app/cache/redis_cache.py     cache decorator                          *)
(*   app/services/db_service.py   cached service operations                *)
(*                                                                         *)
(* Conventions.  A Python str is a sequence of code points, a bytes value  *)
(* a sequence of naturals below 256.  An optional str is a record          *)
(* [none, s].  A step that can raise yields [ok, val]; ok = FALSE stands   *)
(* for a raised exception.                                                 *)
(***************************************************************************)
EXTENDS Integers, Sequences, FiniteSets, TLC

VARIABLES
  \* credential codec (hash_verifier.py)
  text,        \* the connection string handed to simple_encrypt
  token,       \* the token about to be handed to simple_decrypt (optional str)
  original,    \* the token simple_encrypt returned
  outcome,     \* what simple_decrypt did: [ok, val]
  phase,       \* "fresh" | "encrypted" | "tampered" | "received"
  decrypted,   \* simple_decrypt has run on token
  \* connector factory (connector.py)
  db_type,     \* the dialect tag handed to get_db_connector
  made,        \* what get_db_connector did: [called, ok, val]
  \* connectors and the driver (base_connector.py, odbc_connector.py,
  \* postgres_connector.py)
  connector,   \* per caller: the Connector object it holds, or NoConnector
  live,        \* the driver connections that are open (handles)
  last,        \* the last Connector method called directly and what it did
  request,     \* the execute_query / get_ddl call made on the Connector object
  answer,      \* what that call did: [op, raised, value, queries, blocks]
  \* cache decorator and services (redis_cache.py, db_service.py)
  pc,          \* per caller: where its service call stands
  call,        \* per caller: the arguments of its call
  ret,         \* per caller: [raised, value], the call's result so far
  trace,       \* per caller: what the call has done so far
  store,       \* the Redis store: a set of [key, value, ttl]
  expired,     \* Redis has expired an entry since the last call began or returned
  prev,        \* the call that returned last: [args, result, trace]
  completed    \* number of calls that have returned

codecVars == <<text, token, original, outcome, phase, decrypted>>
factoryVars == <<db_type, made>>
connVars == <<connector, live, last>>
catalogVars == <<request, answer>>
svcVars == <<pc, call, ret, trace, store, expired, prev, completed>>
vars == <<codecVars, factoryVars, connVars, catalogVars, svcVars>>

\* ------------------------------------------------------------------ bounds
MaxTextLen == 2
MaxRawLen == 3
MaxHandles == 3
MaxCalls == 2

\* ------------------------------------------------------- generic helpers
None == [none |-> TRUE, s |-> <<>>]
Some(str) == [none |-> FALSE, s |-> str]
Ok(v) == [ok |-> TRUE, val |-> v]
Raised == [ok |-> FALSE, val |-> <<>>]

RECURSIVE SeqsUpTo(_, _)
SeqsUpTo(S, n) ==
  IF n = 0 THEN {<<>>}
  ELSE LET shorter == SeqsUpTo(S, n - 1)
       IN shorter \cup {Append(q, x) : q \in {r \in shorter : Len(r) = n - 1}, x \in S}

\* ------------------------------------------------------------ str codecs
IsSurrogate(c) == c >= 55296 /\ c <= 57343

Utf8Char(c) ==
  IF c < 128 THEN <<c>>
  ELSE IF c < 2048 THEN <<192 + (c \div 64), 128 + (c % 64)>>
  ELSE IF c < 65536
       THEN <<224 + (c \div 4096), 128 + ((c \div 64) % 64), 128 + (c % 64)>>
  ELSE <<240 + (c \div 262144), 128 + ((c \div 4096) % 64),
         128 + ((c \div 64) % 64), 128 + (c % 64)>>

RECURSIVE Utf8Bytes(_)
Utf8Bytes(cps) ==
  IF Len(cps) = 0 THEN <<>>
  ELSE IF Len(cps) = 1 THEN Utf8Char(cps[1])
  ELSE LET h == Len(cps) \div 2
       IN Utf8Bytes(SubSeq(cps, 1, h)) \o Utf8Bytes(SubSeq(cps, h + 1, Len(cps)))

\* str.encode(): UTF-8; a lone surrogate raises UnicodeEncodeError.
Utf8Encode(cps) ==
  IF \E i \in 1..Len(cps) : IsSurrogate(cps[i]) THEN Raised ELSE Ok(Utf8Bytes(cps))

IsCont(b) == b >= 128 /\ b <= 191

\* bytes.decode(): strict UTF-8; any ill-formed sequence raises UnicodeDecodeError.
\* Every character starts at a non-continuation byte that announces its length,
\* is followed by exactly that many continuation bytes, and is neither overlong,
\* a surrogate nor above U+10FFFF.
Utf8Decode(bs) ==
  LET n == Len(bs)
      need(b) == IF b < 128 THEN 1
                 ELSE IF b >= 194 /\ b <= 223 THEN 2
                 ELSE IF b >= 224 /\ b <= 239 THEN 3
                 ELSE IF b >= 240 /\ b <= 244 THEN 4
                 ELSE 0
      wellFormedAt(i) ==
        LET b == bs[i]
            k == need(b)
        IN /\ k > 0
           /\ i + k - 1 <= n
           /\ \A j \in (i + 1)..(i + k - 1) : IsCont(bs[j])
           /\ (i + k <= n => ~IsCont(bs[i + k]))
           /\ (b = 224 => bs[i + 1] >= 160)
           /\ (b = 237 => bs[i + 1] <= 159)
           /\ (b = 240 => bs[i + 1] >= 144)
           /\ (b = 244 => bs[i + 1] <= 143)
      cp(i) ==
        LET b == bs[i]
            k == need(b)
        IN IF k = 1 THEN b
           ELSE IF k = 2 THEN (b - 192) * 64 + (bs[i + 1] - 128)
           ELSE IF k = 3
                THEN (b - 224) * 4096 + (bs[i + 1] - 128) * 64 + (bs[i + 2] - 128)
           ELSE (b - 240) * 262144 + (bs[i + 1] - 128) * 4096
                + (bs[i + 2] - 128) * 64 + (bs[i + 3] - 128)
      leads == SelectSeq([i \in 1..n |-> i], LAMBDA i : ~IsCont(bs[i]))
  IN IF n = 0 THEN Ok(<<>>)
     ELSE IF IsCont(bs[1]) \/ \E i \in 1..n : ~IsCont(bs[i]) /\ ~wellFormedAt(i)
     THEN Raised
     ELSE Ok([k \in 1..Len(leads) |-> cp(leads[k])])

\* str.encode('ascii') as done by base64 for a str argument: ValueError on non-ASCII.
AsciiEncode(cps) ==
  IF \A i \in 1..Len(cps) : cps[i] < 128 THEN Ok(cps) ELSE Raised

\* ---------------------------------------------------------------- base64
PadChar == 61

B64Char(i) ==
  IF i < 26 THEN 65 + i
  ELSE IF i < 52 THEN 97 + (i - 26)
  ELSE IF i < 62 THEN 48 + (i - 52)
  ELSE IF i = 62 THEN 43 ELSE 47

\* table_a2b_base64: 64 marks a character outside the alphabet.
B64Index(c) ==
  IF c >= 65 /\ c <= 90 THEN c - 65
  ELSE IF c >= 97 /\ c <= 122 THEN c - 97 + 26
  ELSE IF c >= 48 /\ c <= 57 THEN c - 48 + 52
  ELSE IF c = 43 THEN 62
  ELSE IF c = 47 THEN 63
  ELSE 64

\* base64.b64encode(bytes) -> bytes: three bytes per four characters, '=' padded.
b64encode(b) ==
  LET n == Len(b)
      byte(i) == IF i <= n THEN b[i] ELSE 0
      char(k) ==
        LET g == (k - 1) \div 4
            r == (k - 1) % 4
            b1 == byte(3 * g + 1)
            b2 == byte(3 * g + 2)
            b3 == byte(3 * g + 3)
        IN IF r = 0 THEN B64Char(b1 \div 4)
           ELSE IF r = 1 THEN B64Char((b1 % 4) * 16 + (b2 \div 16))
           ELSE IF r = 2
                THEN (IF 3 * g + 2 > n THEN PadChar
                      ELSE B64Char((b2 % 16) * 4 + (b3 \div 64)))
           ELSE (IF 3 * g + 3 > n THEN PadChar ELSE B64Char(b3 % 64))
  IN [k \in 1..(4 * ((n + 2) \div 3)) |-> char(k)]

IsData(c) == B64Index(c) < 64

\* binascii.a2b_base64 in its default (non-strict) mode, as the scan loop computes
\* it: characters outside the alphabet are skipped; a '=' met at quad position q >= 2
\* completes the padding once q plus the pads seen since the last data character
\* reaches 4, and ends the scan there; the unused low bits of the last data
\* character are dropped; a scan that ends inside a quad raises binascii.Error.
a2b_base64(s) ==
  LET n == Len(s)
      DataBefore(i) == Cardinality({j \in 1..(i - 1) : IsData(s[j])})
      PadsAt(i) ==
        Cardinality({j \in 1..i :
                       /\ s[j] = PadChar
                       /\ \A k \in (j + 1)..(i - 1) : ~IsData(s[k])})
      quad_pos(i) == DataBefore(i) % 4
      stops == {i \in {j \in 1..n : s[j] = PadChar} :
                  quad_pos(i) >= 2 /\ quad_pos(i) + PadsAt(i) >= 4}
      end == IF stops = {} THEN n + 1
             ELSE CHOOSE i \in stops : \A j \in stops : i <= j
      d == SelectSeq(SubSeq(s, 1, end - 1), IsData)
      v(k) == B64Index(d[k])
      byte(j) ==
        LET g == (j - 1) \div 3
            r == (j - 1) % 3
        IN IF r = 0 THEN v(4 * g + 1) * 4 + (v(4 * g + 2) \div 16)
           ELSE IF r = 1 THEN (v(4 * g + 2) % 16) * 16 + (v(4 * g + 3) \div 4)
           ELSE (v(4 * g + 3) % 4) * 64 + v(4 * g + 4)
  IN IF stops = {} /\ Len(d) % 4 # 0 THEN Raised
     ELSE Ok([j \in 1..((Len(d) * 6) \div 8) |-> byte(j)])

\* base64.b64decode(s) for an optional str s: None raises TypeError, a non-ASCII
\* str raises ValueError, otherwise the non-strict decoder runs.
b64decode(arg) ==
  IF arg.none THEN Raised
  ELSE LET a == AsciiEncode(arg.s)
       IN IF ~a.ok THEN Raised ELSE a2b_base64(a.val)

\* --------------------------------------------------- hash_verifier.py codec
\* HASH_SECRET: the deployment's secret (environment variable); a short value here.
HASH_SECRET == <<107, 51, 121>>

DigestSize == 32
SignatureLen == 32

\* hashlib.sha256(m).digest(): a deterministic DigestSize-byte digest of the whole
\* message.  The digest is idealised as collision-free: it is injective on the
\* messages shorter than DigestSize bytes, which are all the model can form.
sha256(m) ==
  [i \in 1..DigestSize |->
     IF i = 1 THEN (Len(m) * 37 + 11) % 256
     ELSE IF i - 1 <= Len(m) THEN (m[i - 1] * 7 + 13 * i + 5) % 256
     ELSE (13 * i + 5) % 256]

\* decoded[:32] and decoded[32:]
SignaturePart(decoded) ==
  SubSeq(decoded, 1, IF Len(decoded) < SignatureLen THEN Len(decoded) ELSE SignatureLen)

\* decoded[31:], an off-by-one split
PayloadPartOffByOne(decoded) == SubSeq(decoded, SignatureLen, Len(decoded))

PayloadPart(decoded) == SubSeq(decoded, SignatureLen + 1, Len(decoded))

\* hashlib.sha256((connection_string + HASH_SECRET).encode()).digest()
Sign(connection_string) ==
  LET m == Utf8Encode(connection_string \o HASH_SECRET)
  IN IF m.ok THEN Ok(sha256(m.val)) ELSE Raised

\* The try block of simple_encrypt (lines 24-33).
EncryptBody(connection_string) ==
  LET signature == Sign(connection_string)
      raw == Utf8Encode(connection_string)
  IN IF ~signature.ok \/ ~raw.ok THEN Raised
     ELSE LET encoded_conn == Utf8Decode(b64encode(raw.val))
              inner == Utf8Encode(encoded_conn.val)
              result == Utf8Decode(b64encode(signature.val \o inner.val))
          IN Ok(Some(result.val))

\* simple_encrypt: any exception of the body is caught and None returned.
simple_encrypt(connection_string) ==
  LET r == EncryptBody(connection_string)
  IN IF r.ok THEN r ELSE Ok(None)

\* The try block of simple_decrypt (lines 49-67).
DecryptBody(hash_value) ==
  LET decoded == b64decode(hash_value)
  IN IF ~decoded.ok THEN Raised
     ELSE LET signature == SignaturePart(decoded.val)
              encoded_conn == Utf8Decode(PayloadPart(decoded.val))
          IN IF ~encoded_conn.ok THEN Raised
             ELSE LET conn_bytes == b64decode(Some(encoded_conn.val))
                  IN IF ~conn_bytes.ok THEN Raised
                     ELSE LET connection_string == Utf8Decode(conn_bytes.val)
                          IN IF ~connection_string.ok THEN Raised
                             ELSE LET expected_signature == Sign(connection_string.val)
                                  IN IF ~expected_signature.ok THEN Raised
                                     ELSE IF signature # expected_signature.val
                                          THEN Ok(None)
                                          ELSE Ok(Some(connection_string.val))

\* simple_decrypt without its try/except
simple_decrypt_unguarded(hash_value) == DecryptBody(hash_value)

\* simple_decrypt: any exception of the body is caught and None returned.
simple_decrypt(hash_value) ==
  LET r == DecryptBody(hash_value)
  IN IF r.ok THEN r ELSE Ok(None)


\* ------------------------------------------------ codec: inputs and steps
\* 'a', e-acute (2 bytes), euro sign (3 bytes), a lone surrogate (not encodable)
TextAlphabet == {97, 233, 8364, 55296}
Texts == SeqsUpTo(TextAlphabet, MaxTextLen)

\* A descriptor text: a str of characters (no lone surrogate).
IsDescriptorText(t) == \A i \in 1..Len(t) : ~IsSurrogate(t[i])

\* 'Q', '=', '!', e-acute: tokens a caller of /api/hash/verify may send
RawChars == {81, 61, 33, 233}
RawTokens == SeqsUpTo(RawChars, MaxRawLen) \ {<<>>}

FlipBit(n, k) ==
  LET w == 2 ^ k IN IF (n \div w) % 2 = 1 THEN n - w ELSE n + w

\* The bytes a single byte c of a token may be replaced by: another alphabet
\* character differing in one bit of its 6-bit value, or '=', '!', newline,
\* e-acute, 'A'.
Replacements(c) ==
  ((IF IsData(c) THEN {B64Char(FlipBit(B64Index(c), k)) : k \in 0..5} ELSE {})
   \cup {PadChar, 33, 10, 233, 65}) \ {c}

Callers == {1, 2}

\* No Connector object held.
NoConnector == [kind |-> "none", connection_string |-> <<>>, connection |-> 0]

NoCall ==
  [op |-> "none", raised |-> FALSE, before |-> 0, opened |-> FALSE, attempted |-> FALSE]

ConnIdle ==
  /\ connector = [c \in Callers |-> NoConnector]
  /\ live = {}
  /\ last = NoCall

NoArgs ==
  [op |-> "none", connection_string |-> <<>>, db_type |-> <<>>, subject |-> "",
   cache_enabled |-> FALSE, cache_ttl |-> 0]

NoResult == [raised |-> FALSE, value |-> [status |-> "none"]]

NoTrace ==
  [invoked |-> 0, created |-> 0, connects |-> 0, runs |-> 0, disconnects |-> 0,
   reads |-> 0, writes |-> 0, readFailed |-> FALSE, writeFailed |-> FALSE,
   unparsed |-> FALSE,
   failed |-> FALSE, error |-> <<>>, live |-> NoResult,
   gap |-> FALSE, expired |-> FALSE]

NoPrev == [args |-> NoArgs, result |-> NoResult, trace |-> NoTrace]

SvcIdle ==
  /\ pc = [c \in Callers |-> "idle"]
  /\ call = [c \in Callers |-> NoArgs]
  /\ ret = [c \in Callers |-> NoResult]
  /\ trace = [c \in Callers |-> NoTrace]
  /\ store = {}
  /\ expired = FALSE
  /\ prev = NoPrev
  /\ completed = 0

\* No execute_query / get_ddl call made on a Connector object.
NoRequest == [op |-> "none"]
NoAnswer == [op |-> "none", raised |-> FALSE, value |-> <<>>, queries |-> <<>>,
             blocks |-> <<>>]

CatalogIdle == request = NoRequest /\ answer = NoAnswer

FactoryIdle == db_type = <<>> /\ made = [called |-> FALSE, ok |-> TRUE, val |-> <<>>]

InitCodec ==
  /\ FactoryIdle
  /\ CatalogIdle
  /\ ConnIdle
  /\ SvcIdle
  /\ original = None
  /\ outcome = Ok(None)
  /\ decrypted = FALSE
  /\ \/ phase = "fresh" /\ text \in Texts /\ token = None
     \/ phase = "received" /\ text = <<>> /\ token \in {Some(t) : t \in RawTokens}

\* encrypt_connection_string(connection_string)
Encrypt ==
  /\ phase = "fresh"
  /\ token' = simple_encrypt(text).val
  /\ original' = token'
  /\ phase' = "encrypted"
  /\ UNCHANGED <<text, outcome, decrypted, factoryVars, catalogVars, connVars, svcVars>>

\* One byte of a token produced by simple_encrypt is changed in transit.
Tamper ==
  /\ phase = "encrypted"
  /\ ~decrypted
  /\ ~token.none
  /\ \E p \in 1..Len(token.s) : \E c \in Replacements(token.s[p]) :
       token' = Some([token.s EXCEPT ![p] = c])
  /\ phase' = "tampered"
  /\ UNCHANGED <<text, original, outcome, decrypted, factoryVars, catalogVars, connVars, svcVars>>

\* verify_hash(token)
Decrypt ==
  /\ phase \in {"encrypted", "tampered", "received"}
  /\ ~decrypted
  /\ outcome' = simple_decrypt(token)
  /\ decrypted' = TRUE
  /\ UNCHANGED <<text, token, original, phase, factoryVars, catalogVars, connVars, svcVars>>

NextCodec == Encrypt \/ Tamper \/ Decrypt

SpecCodec == InitCodec /\ [][NextCodec]_vars

\* ------------------------------------------------------- claims: the codec
\* C1: for every descriptor text D, simple_decrypt(simple_encrypt(D)) returns
\* exactly D.
C1_RoundTrip ==
  (decrypted /\ phase = "encrypted" /\ IsDescriptorText(text))
    => outcome = Ok(Some(text))

C1_Witness ==
  /\ decrypted /\ phase = "encrypted"
  /\ text = <<233, 8364>>
  /\ token = original /\ ~token.none
  /\ outcome = Ok(Some(text))

\* C8 (as claimed): every token that differs in one byte from a token produced
\* by simple_encrypt makes simple_decrypt return None.
C8_TamperAlwaysFails ==
  (decrypted /\ phase = "tampered") => outcome.val = None

\* C9: simple_decrypt never raises; malformed base64, a payload shorter than 32
\* bytes, a non-decodable remainder and a signature mismatch all give None, and
\* a returned text is one whose signature is the token's signature prefix.
C9_Malformed(t) ==
  \/ t.none
  \/ ~b64decode(t).ok
  \/ LET decoded == b64decode(t).val
         rest == Utf8Decode(PayloadPart(decoded))
     IN \/ Len(decoded) < SignatureLen
        \/ ~rest.ok
        \/ ~b64decode(Some(rest.val)).ok
        \/ ~Utf8Decode(b64decode(Some(rest.val)).val).ok
        \/ Sign(Utf8Decode(b64decode(Some(rest.val)).val).val)
             # Ok(SignaturePart(decoded))

C9_NeverRaises ==
  decrypted =>
    /\ outcome.ok
    /\ (C9_Malformed(token) => outcome.val = None)
    /\ (~outcome.val.none =>
          Sign(outcome.val.s) = Ok(SignaturePart(b64decode(token).val)))

C9_Witness ==
  /\ decrypted
  /\ phase = "tampered"
  /\ ~b64decode(token).ok
  /\ outcome = Ok(None)


\* ------------------------------------------------------ connector.py factory
\* "fabric"
Tag_fabric == <<102, 97, 98, 114, 105, 99>>
\* "odbc"
Tag_odbc == <<111, 100, 98, 99>>
\* "microsoft_fabric"
Tag_microsoft_fabric == <<109, 105, 99, 114, 111, 115, 111, 102, 116, 95, 102, 97, 98, 114, 105, 99>>
\* "postgres"
Tag_postgres == <<112, 111, 115, 116, 103, 114, 101, 115>>
\* "postgresql"
Tag_postgresql == <<112, 111, 115, 116, 103, 114, 101, 115, 113, 108>>

\* "Unsupported database type: "
UnsupportedPrefix == <<85, 110, 115, 117, 112, 112, 111, 114, 116, 101, 100, 32, 100, 97, 116, 97, 98, 97, 115, 101, 32, 116, 121, 112, 101, 58, 32>>

\* str.lower() on the characters of a tag
LowerChar(c) == IF c >= 65 /\ c <= 90 THEN c + 32 ELSE c
Lower(str) == [i \in 1..Len(str) |-> LowerChar(str[i])]

UpperChar(c) == IF c >= 97 /\ c <= 122 THEN c - 32 ELSE c

NoConnection == 0

\* BaseConnector.__init__
NewConnector(kind, connection_string) ==
  [kind |-> kind, connection_string |-> connection_string, connection |-> NoConnection]

\* get_db_connector comparing the tag as given, without lower()
get_db_connector_case_sensitive(connection_string, tag) ==
  IF tag \in {Tag_fabric, Tag_odbc, Tag_microsoft_fabric}
  THEN [ok |-> TRUE, val |-> NewConnector("ODBCConnector", connection_string)]
  ELSE IF tag \in {Tag_postgres, Tag_postgresql}
  THEN [ok |-> TRUE, val |-> NewConnector("PostgresConnector", connection_string)]
  ELSE [ok |-> FALSE, val |-> UnsupportedPrefix \o tag]

\* a factory that falls back to the ODBC connector for an unknown tag
get_db_connector_lenient(connection_string, tag) ==
  IF Lower(tag) \in {Tag_postgres, Tag_postgresql}
  THEN [ok |-> TRUE, val |-> NewConnector("PostgresConnector", connection_string)]
  ELSE [ok |-> TRUE, val |-> NewConnector("ODBCConnector", connection_string)]

\* get_db_connector: a connector, or ValueError with its message
get_db_connector(connection_string, tag) ==
  IF Lower(tag) \in {Tag_fabric, Tag_odbc, Tag_microsoft_fabric}
  THEN [ok |-> TRUE, val |-> NewConnector("ODBCConnector", connection_string)]
  ELSE IF Lower(tag) \in {Tag_postgres, Tag_postgresql}
  THEN [ok |-> TRUE, val |-> NewConnector("PostgresConnector", connection_string)]
  ELSE [ok |-> FALSE, val |-> UnsupportedPrefix \o tag]

SupportedTags == {Tag_fabric, Tag_odbc, Tag_microsoft_fabric, Tag_postgres, Tag_postgresql}

\* The letter-case variants of a tag the factory is tried on: as written, upper
\* case, and one letter at a time in upper case.
CaseVariants(tag) ==
  {tag, [i \in 1..Len(tag) |-> UpperChar(tag[i])]}
  \cup {[tag EXCEPT ![p] = UpperChar(tag[p])] : p \in 1..Len(tag)}

\* "bogus", "mysql", "", "postgres ", "fabrics", "pg", "sqlserver", "odbc_"
OtherTags == {<<98, 111, 103, 117, 115>>,
              <<109, 121, 115, 113, 108>>,
              <<>>,
              <<112, 111, 115, 116, 103, 114, 101, 115, 32>>,
              <<102, 97, 98, 114, 105, 99, 115>>,
              <<112, 103>>,
              <<115, 113, 108, 115, 101, 114, 118, 101, 114>>,
              <<111, 100, 98, 99, 95>>}

DialectTags == UNION {CaseVariants(t) : t \in SupportedTags \cup OtherTags}

\* "host=h dbname=d"
Conn_kv == <<104, 111, 115, 116, 61, 104, 32, 100, 98, 110, 97, 109, 101, 61, 100>>

CodecIdle ==
  /\ text = <<>> /\ token = None /\ original = None
  /\ outcome = Ok(None) /\ phase = "idle" /\ decrypted = FALSE

InitFactory ==
  /\ CodecIdle
  /\ CatalogIdle
  /\ ConnIdle
  /\ SvcIdle
  /\ db_type \in DialectTags
  /\ made = [called |-> FALSE, ok |-> TRUE, val |-> <<>>]

CreateConnector ==
  /\ ~made.called
  /\ phase = "idle"
  /\ LET r == get_db_connector(Conn_kv, db_type)
     IN made' = [called |-> TRUE, ok |-> r.ok, val |-> r.val]
  /\ UNCHANGED <<db_type, codecVars, catalogVars, connVars, svcVars>>

NextFactory == CreateConnector

SpecFactory == InitFactory /\ [][NextFactory]_vars

\* ----------------------------------------------------- claims: the factory
\* C7: fabric, odbc and microsoft_fabric give an ODBCConnector, postgres and
\* postgresql a PostgresConnector, in any letter case; every other tag fails with
\* the unsupported-type error whose message carries the tag as given.
C7_IsCaseVariantOf(tag, names) ==
  \E n \in names :
    /\ Len(n) = Len(tag)
    /\ \A i \in 1..Len(n) : tag[i] = n[i] \/ tag[i] = UpperChar(n[i])

C7_Dispatch ==
  made.called =>
    IF C7_IsCaseVariantOf(db_type, {Tag_fabric, Tag_odbc, Tag_microsoft_fabric})
    THEN made.ok /\ made.val.kind = "ODBCConnector"
    ELSE IF C7_IsCaseVariantOf(db_type, {Tag_postgres, Tag_postgresql})
    THEN made.ok /\ made.val.kind = "PostgresConnector"
    ELSE ~made.ok /\ made.val = UnsupportedPrefix \o db_type

C7_Witness ==
  /\ made.called /\ made.ok
  /\ db_type = [i \in 1..Len(Tag_postgres) |-> UpperChar(Tag_postgres[i])]
  /\ made.val.kind = "PostgresConnector"


\* -------------------------------------------------------------- connectors
\* "postgresql://"
UriPrefix == <<112, 111, 115, 116, 103, 114, 101, 115, 113, 108, 58, 47, 47>>

\* "://"
SchemeSep == <<58, 47, 47>>

Contains(str, sub) ==
  \E i \in 1..(Len(str) - Len(sub) + 1) : SubSeq(str, i, i + Len(sub) - 1) = sub

IsDigit(c) == c >= 48 /\ c <= 57

\* re.match(r"postgresql://(?:([^:@]+)(?::([^@]*))?@)?([^:/]+)(?::(\d+))?/([^?]+)", s):
\* whether some way of matching exists (the match is anchored at the start only).
UriMatches(str) ==
  /\ Len(str) >= Len(UriPrefix)
  /\ SubSeq(str, 1, Len(UriPrefix)) = UriPrefix
  /\ LET R == SubSeq(str, Len(UriPrefix) + 1, Len(str))
         n == Len(R)
         \* a = 0: no user part; otherwise R[a] is the '@' that ends it
         userEnds == {0} \cup {a \in 2..n :
                                 /\ R[a] = 64
                                 /\ R[1] # 58
                                 /\ \A i \in 1..(a - 1) : R[i] # 64}
         hostOk(a, b) == b >= a + 1 /\ \A i \in (a + 1)..b : R[i] # 58 /\ R[i] # 47
         \* the path "/x" starts at position q
         pathAt(q) == q + 1 <= n /\ R[q] = 47 /\ R[q + 1] # 63
     IN \E a \in userEnds : \E b \in (a + 1)..n :
          /\ hostOk(a, b)
          /\ \/ pathAt(b + 1)
             \/ \E e \in (b + 2)..n :
                  /\ R[b + 1] = 58
                  /\ \A i \in (b + 2)..e : IsDigit(R[i])
                  /\ pathAt(e + 1)

\* PostgresConnector._parse_connection_string: the format recognised, or ValueError
parse_connection_string(connection_string) ==
  IF \E i \in 1..Len(connection_string) : connection_string[i] = 61
  THEN Ok("keyvalue")
  ELSE IF Contains(connection_string, SchemeSep)
  THEN (IF UriMatches(connection_string) THEN Ok("uri") ELSE [ok |-> FALSE, val |-> "invalid"])
  ELSE [ok |-> FALSE, val |-> "unsupported"]

\* "Failed to connect to ODBC database: ", "Failed to connect to PostgreSQL
\* database: ", the driver's diagnostic "refused", and the parser's message
\* prefix "PostgreSQL connection string format: "
Msg_connect_odbc == <<70, 97, 105, 108, 101, 100, 32, 116, 111, 32, 99, 111, 110, 110, 101, 99, 116, 32, 116, 111, 32, 79, 68, 66, 67, 32, 100, 97, 116, 97, 98, 97, 115, 101, 58, 32>>
Msg_connect_pg == <<70, 97, 105, 108, 101, 100, 32, 116, 111, 32, 99, 111, 110, 110, 101, 99, 116, 32, 116, 111, 32, 80, 111, 115, 116, 103, 114, 101, 83, 81, 76, 32, 100, 97, 116, 97, 98, 97, 115, 101, 58, 32>>
Msg_refused == <<114, 101, 102, 117, 115, 101, 100>>
Msg_format == <<80, 111, 115, 116, 103, 114, 101, 83, 81, 76, 32, 99, 111, 110, 110, 101, 99, 116, 105, 111, 110, 32, 115, 116, 114, 105, 110, 103, 32, 102, 111, 114, 109, 97, 116, 58, 32>>

Handles == 1..MaxHandles

\* The handle the driver gives the next connection it opens.
FreshHandle(open) == CHOOSE h \in Handles \ open : \A g \in Handles \ open : h <= g

\* ODBCConnector.connect / PostgresConnector.connect.  driverOk: whether the
\* driver's connect call succeeds.  Yields the connector afterwards, the open
\* connections afterwards, whether ConnectionError was raised and whether the
\* driver was asked to connect.
ConnectorConnect(conn, open, driverOk) ==
  LET parsed == IF conn.kind = "PostgresConnector"
                THEN parse_connection_string(conn.connection_string)
                ELSE Ok("odbc")
      h == FreshHandle(open)
      prefix == IF conn.kind = "PostgresConnector" THEN Msg_connect_pg
                ELSE Msg_connect_odbc
  IN IF ~parsed.ok
     THEN [conn |-> conn, open |-> open, raised |-> TRUE, attempted |-> FALSE,
           error |-> prefix \o Msg_format \o conn.connection_string]
     ELSE IF ~driverOk
     THEN [conn |-> conn, open |-> open, raised |-> TRUE, attempted |-> TRUE,
           error |-> prefix \o Msg_refused]
     ELSE [conn |-> [conn EXCEPT !.connection = h], open |-> open \cup {h},
           raised |-> FALSE, attempted |-> TRUE, error |-> <<>>]

\* BaseConnector.disconnect.  closeOk: whether the driver's close() succeeds; a
\* close() that raises may or may not have released the connection (released).
ConnectorDisconnect(conn, open, closeOk, released) ==
  IF conn.connection = NoConnection
  THEN [conn |-> conn, open |-> open, raised |-> FALSE]
  ELSE IF closeOk
  THEN [conn |-> [conn EXCEPT !.connection = NoConnection],
        open |-> open \ {conn.connection}, raised |-> FALSE]
  ELSE [conn |-> conn,
        open |-> IF released THEN open \ {conn.connection} ELSE open,
        raised |-> TRUE]

\* "host=h dbname=d", "postgresql://u:p@h:5432/d", "dsn"
Conn_uri == <<112, 111, 115, 116, 103, 114, 101, 115, 113, 108, 58, 47, 47, 117, 58, 112, 64, 104, 58, 53, 52, 51, 50, 47, 100>>
Conn_plain == <<100, 115, 110>>
\* "postgresql://h/d?a=b"
Conn_uri_option == <<112, 111, 115, 116, 103, 114, 101, 115, 113, 108, 58, 47, 47, 104, 47, 100, 63, 97, 61, 98>>
ConnectionStrings == {Conn_kv, Conn_uri, Conn_plain, Conn_uri_option}

\* ---------------------------------- a Connector object used directly
InitConn ==
  /\ CodecIdle
  /\ CatalogIdle
  /\ FactoryIdle
  /\ SvcIdle
  /\ \E k \in {"ODBCConnector", "PostgresConnector"} : \E cs \in ConnectionStrings :
       connector = [c \in Callers |-> IF c = 1 THEN NewConnector(k, cs) ELSE NoConnector]
  /\ live = {}
  /\ last = NoCall

\* connector.connect()
ObjConnect ==
  /\ phase = "idle"
  /\ connector[1].kind # "none"
  /\ Cardinality(live) < MaxHandles
  /\ \E driverOk \in BOOLEAN :
       LET r == ConnectorConnect(connector[1], live, driverOk)
       IN /\ connector' = [connector EXCEPT ![1] = r.conn]
          /\ live' = r.open
          /\ last' = [op |-> "connect", raised |-> r.raised,
                      before |-> connector[1].connection,
                      opened |-> r.open # live, attempted |-> r.attempted]
  /\ request' = NoRequest
  /\ answer' = NoAnswer
  /\ UNCHANGED <<codecVars, factoryVars, svcVars>>

\* connector.disconnect()
ObjDisconnect ==
  /\ phase = "idle"
  /\ connector[1].kind # "none"
  /\ \E closeOk \in BOOLEAN : \E released \in BOOLEAN :
       LET r == ConnectorDisconnect(connector[1], live, closeOk, released)
       IN /\ connector' = [connector EXCEPT ![1] = r.conn]
          /\ live' = r.open
          /\ last' = [op |-> "disconnect", raised |-> r.raised,
                      before |-> connector[1].connection, opened |-> FALSE,
                      attempted |-> FALSE]
  /\ request' = NoRequest
  /\ answer' = NoAnswer
  /\ UNCHANGED <<codecVars, factoryVars, svcVars>>


\* --------------------------------------------------- claims: the connector
\* C10 (as claimed): connect() on a connector that already holds an open
\* connection is a no-op: no new driver connection is established and the held
\* handle is unchanged.
C10_ConnectIdempotent ==
  (last.op = "connect" /\ last.before # NoConnection)
    => /\ ~last.opened
       /\ connector[1].connection = last.before

\* C11 (as claimed): disconnect() closes and clears a held connection, changes
\* nothing when none is held, and never fails observably, also when the driver's
\* close() fails.
C11_DisconnectQuiet ==
  last.op = "disconnect" =>
    /\ ~last.raised
    /\ connector[1].connection = NoConnection
    /\ last.before \notin live


\* ------------------------------------------------ execute_query / get_ddl
\* A cell the driver returns: a JSON-native int or str, or a value json.dumps
\* knows only through default=str (decimal.Decimal, datetime, ...).
Cell(t, v) == [t |-> t, v |-> v]

\* What the cursor reports after cursor.execute(query): the result-set
\* description (empty when there is none), the rows and rowcount.
Cursors ==
  { [description |-> <<"n">>, rows |-> << <<Cell("int", "1")>> >>, rowcount |-> 1],
    [description |-> <<"amount">>, rows |-> << <<Cell("Decimal", "1.50")>> >>,
     rowcount |-> 1],
    [description |-> <<>>, rows |-> <<>>, rowcount |-> 2] }

\* dict(zip(columns, row))
RowDict(columns, row) ==
  LET n == IF Len(columns) < Len(row) THEN Len(columns) ELSE Len(row)
  IN [name \in {columns[i] : i \in 1..n} |->
        row[CHOOSE i \in 1..n : columns[i] = name /\ \A j \in 1..n : columns[j] = name => j <= i]]

\* ODBCConnector.execute_query, after cursor.execute succeeded
odbc_execute_query(cur) ==
  LET hasDescription == cur.description # <<>>
      columns == IF hasDescription THEN cur.description ELSE <<>>
      results == IF hasDescription
                 THEN [i \in 1..Len(cur.rows) |-> RowDict(columns, cur.rows[i])]
                 ELSE <<>>
  IN [columns |-> columns,
      data |-> results,
      row_count |-> IF hasDescription THEN Len(results) ELSE cur.rowcount,
      affected_rows |-> IF ~hasDescription THEN cur.rowcount ELSE 0]

\* PostgresConnector.execute_query, after cursor.execute succeeded
postgres_execute_query(cur) ==
  IF cur.description # <<>>
  THEN LET columns == cur.description
           results == [i \in 1..Len(cur.rows) |-> RowDict(columns, cur.rows[i])]
       IN [columns |-> columns, data |-> results, row_count |-> Len(results),
           affected_rows |-> 0]
  ELSE [columns |-> <<>>, data |-> <<>>, row_count |-> 0,
        affected_rows |-> cur.rowcount]

execute_query(conn, cur) ==
  IF conn.kind = "ODBCConnector" THEN odbc_execute_query(cur)
  ELSE postgres_execute_query(cur)

\* The driver's diagnostics for a rejected statement and a failed close().
Msg_rejected == <<115, 121, 110, 116, 97, 120, 32, 101, 114, 114, 111, 114>>
Msg_close == <<99, 108, 111, 115, 101, 32, 102, 97, 105, 108, 101, 100>>

\* ------------------------------------- execute_query on a Connector object
\* What the driver can report after cursor.execute(query): result sets of 0, 1
\* and 2 rows, and statements without a result set with rowcount 0, 2 and -1.
DriverCursors ==
  Cursors \cup
  { [description |-> <<"n">>, rows |-> <<>>, rowcount |-> 0],
    [description |-> <<"n">>,
     rows |-> << <<Cell("int", "1")>>, <<Cell("int", "2")>> >>, rowcount |-> -1],
    [description |-> <<>>, rows |-> <<>>, rowcount |-> 0],
    [description |-> <<>>, rows |-> <<>>, rowcount |-> -1] }

\* if not self.connection: self.connect()
EnsureConnected(conn, open, driverOk) ==
  IF conn.connection # NoConnection
  THEN [conn |-> conn, open |-> open, raised |-> FALSE, attempted |-> FALSE,
        error |-> <<>>]
  ELSE ConnectorConnect(conn, open, driverOk)

\* connector.execute_query(query): connects when no connection is held, then
\* runs the statement; the driver rejects it or reports one of DriverCursors.
ObjExecuteQuery ==
  /\ phase = "idle"
  /\ connector[1].kind # "none"
  /\ answer.op = "none"
  /\ live \subseteq {connector[1].connection}
  /\ \E driverOk \in BOOLEAN : \E rejected \in BOOLEAN : \E cur \in DriverCursors :
       LET c == EnsureConnected(connector[1], live, driverOk)
       IN /\ connector' = [connector EXCEPT ![1] = c.conn]
          /\ live' = c.open
          /\ request' = [op |-> "execute_query", cursor |-> cur]
          /\ answer' =
               IF c.raised
               THEN [NoAnswer EXCEPT !.op = "execute_query", !.raised = TRUE,
                                     !.value = c.error]
               ELSE IF rejected
               THEN [NoAnswer EXCEPT !.op = "execute_query", !.raised = TRUE,
                                     !.value = Msg_rejected]
               ELSE [NoAnswer EXCEPT !.op = "execute_query",
                                     !.value = execute_query(c.conn, cur)]
  /\ last' = NoCall
  /\ UNCHANGED <<codecVars, factoryVars, svcVars>>

\* C12 (as claimed): execute_query returns columns, data, row_count and
\* affected_rows; with a result set row_count is the number of rows and
\* affected_rows is 0; without one row_count is 0, columns and data are empty and
\* affected_rows is the driver's rowcount.
C12_ResultShape ==
  (answer.op = "execute_query" /\ ~answer.raised) =>
    LET r == answer.value
        cur == request.cursor
    IN /\ DOMAIN r = {"columns", "data", "row_count", "affected_rows"}
       /\ IF cur.description # <<>>
          THEN /\ r.columns = cur.description
               /\ Len(r.data) = Len(cur.rows)
               /\ r.row_count = Len(cur.rows)
               /\ r.affected_rows = 0
          ELSE /\ r.columns = <<>>
               /\ r.data = <<>>
               /\ r.row_count = 0
               /\ r.affected_rows = cur.rowcount


\* ------------------------------------------------------------ DDL texts
\* A str that get_ddl reads or builds is a sequence of tokens: the literal
\* pieces of the f-strings, identifiers and the digits of formatted numbers.
MaxTables == 2
MaxColumns == 2

Blank == "\n\n"
WhiteTokens == {"\n", Blank, " ", "    "}

\* str.lower() on a token
LowerToken(t) ==
  CASE t = "Orders" -> "orders"
    [] t = "TABLE" -> "table"
    [] t = "View" -> "view"
    [] OTHER -> t

LowerText(str) == [i \in 1..Len(str) |-> LowerToken(str[i])]

\* str.strip()
Strip(str) ==
  LET keep == {i \in 1..Len(str) : str[i] \notin WhiteTokens}
  IN IF keep = {} THEN <<>>
     ELSE SubSeq(str, CHOOSE i \in keep : \A j \in keep : i <= j,
                      CHOOSE i \in keep : \A j \in keep : j <= i)

\* sep.join(parts) for a list of tokens
RECURSIVE JoinTokens(_, _)
JoinTokens(parts, sep) ==
  IF parts = <<>> THEN <<>>
  ELSE IF Len(parts) = 1 THEN <<parts[1]>>
  ELSE <<parts[1], sep>> \o JoinTokens(Tail(parts), sep)

\* f"{n}" for an int
RECURSIVE IntText(_)
IntText(n) ==
  IF n < 0 THEN <<"-">> \o IntText(0 - n)
  ELSE IF n < 10
  THEN <<(<<"0", "1", "2", "3", "4", "5", "6", "7", "8", "9">>)[n + 1]>>
  ELSE IntText(n \div 10) \o IntText(n % 10)

\* "." in name and name.split(".", 1)
HasDot(str) == \E i \in 1..Len(str) : str[i] = "."
FirstDot(str) == CHOOSE i \in 1..Len(str) : str[i] = "." /\ \A j \in 1..(i - 1) : str[j] # "."
BeforeDot(str) == SubSeq(str, 1, FirstDot(str) - 1)
AfterDot(str) == SubSeq(str, FirstDot(str) + 1, Len(str))

\* One catalog query and what the driver answered: execute_query raised, or
\* returned the rows in data.
Asked(q, arg, raised, data) ==
  [q |-> q, arg |-> arg, ans |-> [raised |-> raised, data |-> data]]

\* What a get_ddl call did: raised or returned value, the queries it issued and
\* the per-table texts a wildcard call collected.
Did(raised, value, queries, blocks) ==
  [raised |-> raised, value |-> value, queries |-> queries, blocks |-> blocks]

\* str(e) of a driver error, of a failed connect inside execute_query and of a
\* RecursionError
Err_driver == <<"relation does not exist", "\n">>
Err_connect == <<"Failed to connect to database">>
Err_recursion == <<"maximum recursion depth exceeded">>

Wildcard == <<"*">>

\* --------------------------------------------------- ODBCConnector.get_ddl
CharTypes == {"varchar", "nvarchar", "char", "nchar"}
DecimalTypes == {"decimal", "numeric"}
MaxLengthMarker == -1

\* a column line that prints max_length as it is, also when it is -1
ColumnLineNoMax(col) ==
  <<"    ", col.column_name, " ", col.data_type>>
  \o (IF col.data_type \in CharTypes
      THEN <<"(">> \o IntText(col.max_length) \o <<")">>
      ELSE IF col.data_type \in DecimalTypes
      THEN <<"(">> \o IntText(col.precision) \o <<", ">> \o IntText(col.scale)
           \o <<")">>
      ELSE <<>>)
  \o (IF ~col.is_nullable THEN <<" NOT NULL">> ELSE <<" NULL">>)
  \o (IF col.is_identity THEN <<" IDENTITY(1,1)">> ELSE <<>>)

\* lines 125-138: one column of the CREATE TABLE block
ColumnLine(col) ==
  <<"    ", col.column_name, " ", col.data_type>>
  \o (IF col.data_type \in CharTypes
      THEN <<"(">> \o (IF col.max_length # MaxLengthMarker
                       THEN IntText(col.max_length) ELSE <<"MAX">>) \o <<")">>
      ELSE IF col.data_type \in DecimalTypes
      THEN <<"(">> \o IntText(col.precision) \o <<", ">> \o IntText(col.scale)
           \o <<")">>
      ELSE <<>>)
  \o (IF ~col.is_nullable THEN <<" NOT NULL">> ELSE <<" NULL">>)
  \o (IF col.is_identity THEN <<" IDENTITY(1,1)">> ELSE <<>>)

\* lines 123-144
RECURSIVE ColumnLines(_)
ColumnLines(cols) ==
  IF cols = <<>> THEN <<>>
  ELSE ColumnLine(cols[1])
       \o (IF Len(cols) > 1 THEN <<",\n">> ELSE <<>>)
       \o ColumnLines(Tail(cols))

CreateTableBlock(object_name, cols) ==
  <<"CREATE TABLE ">> \o object_name \o <<" (\n">> \o ColumnLines(cols) \o <<"\n);">>

\* lines 160-163
PrimaryKeyStatement(object_name, pk) ==
  IF pk = <<>> THEN <<>>
  ELSE <<"\n\nALTER TABLE ">> \o object_name \o <<" ADD CONSTRAINT ", pk[1].index_name,
         " PRIMARY KEY (">>
       \o JoinTokens([i \in 1..Len(pk) |-> pk[i].column_name], ", ") \o <<");">>

\* one key per row of the foreign-key query, without grouping
FkNamesPerRow(fk) == [k \in 1..Len(fk) |-> fk[k].fk_name]

\* lines 182-193: the keys of fk_dict in insertion order, and a key's rows
FkNames(fk) ==
  LET idx == [i \in 1..Len(fk) |-> i]
      firsts == SelectSeq(idx, LAMBDA i : \A j \in 1..(i - 1) : fk[j].fk_name # fk[i].fk_name)
  IN [k \in 1..Len(firsts) |-> fk[firsts[k]].fk_name]

FkRows(fk, name) == SelectSeq(fk, LAMBDA row : row.fk_name = name)

\* lines 196-200
ForeignKeyStatement(fk, name) ==
  LET rows == FkRows(fk, name)
  IN <<"\n\nALTER TABLE ", rows[1].parent_table, " ADD CONSTRAINT ", name, " ",
       "FOREIGN KEY (">>
     \o JoinTokens([i \in 1..Len(rows) |-> rows[i].parent_column], ", ")
     \o <<") REFERENCES ", rows[1].referenced_table, " (">>
     \o JoinTokens([i \in 1..Len(rows) |-> rows[i].referenced_column], ", ")
     \o <<");">>

RECURSIVE ForeignKeyStatements(_, _)
ForeignKeyStatements(fk, names) ==
  IF names = <<>> THEN <<>>
  ELSE ForeignKeyStatement(fk, names[1]) \o ForeignKeyStatements(fk, Tail(names))

\* lines 102-202: get_ddl(object_name, "table") for one table.  db says what the
\* catalog holds (columns, pk, fk) and which of the three queries, if any, the
\* driver fails (fail).
odbc_table_ddl(object_name, db) ==
  LET q1 == Asked("columns", object_name, db.fail = 1, IF db.fail = 1 THEN <<>> ELSE db.columns)
      q2 == Asked("primary_key", object_name, db.fail = 2, IF db.fail = 2 THEN <<>> ELSE db.pk)
      q3 == Asked("foreign_keys", object_name, db.fail = 3, IF db.fail = 3 THEN <<>> ELSE db.fk)
      ddl == CreateTableBlock(object_name, db.columns)
             \o PrimaryKeyStatement(object_name, db.pk)
             \o ForeignKeyStatements(db.fk, FkNames(db.fk))
  IN IF db.fail = 1 THEN Did(TRUE, db.error, <<q1>>, <<>>)
     ELSE IF db.fail = 2 THEN Did(TRUE, db.error, <<q1, q2>>, <<>>)
     ELSE IF db.fail = 3 THEN Did(TRUE, db.error, <<q1, q2, q3>>, <<>>)
     ELSE Did(FALSE, ddl, <<q1, q2, q3>>, <<>>)

\* lines 204-244: view, procedure / stored_procedure, function.  db.first is
\* what the one query does: "raise", "empty" or "found" with db.definition.
odbc_module_ddl(object_name, object_type, db) ==
  LET q == Asked(object_type, object_name, db.first = "raise",
                 IF db.first = "found" THEN <<[definition |-> db.definition]>> ELSE <<>>)
      label == CASE object_type = "view" -> "-- View "
                 [] object_type = "function" -> "-- Function "
                 [] OTHER -> "-- Stored procedure "
  IN IF db.first = "raise" THEN Did(TRUE, db.error, <<q>>, <<>>)
     ELSE IF db.first = "found"
     THEN Did(FALSE,
              IF object_type = "view"
              THEN <<"CREATE VIEW ">> \o object_name \o <<" AS\n">> \o db.definition
              ELSE db.definition,
              <<q>>, <<>>)
     ELSE Did(FALSE, <<label>> \o object_name \o <<" definition not found">>, <<q>>, <<>>)

\* line 247 / postgres_connector.py line 361
Unsupported(object_type) ==
  Did(FALSE, <<"-- DDL generation for ", object_type, " is not supported yet">>, <<>>, <<>>)

\* The wildcard loop (lines 94-100, postgres_connector.py 166-172): results is
\* what get_ddl(name, "table") did for each listed name, in order.  A listed
\* name "*" re-enters the wildcard branch with the same listing, without end,
\* until Python raises RecursionError; a table call that raises ends the loop.
\* a loop that appends the texts without the separator
RECURSIVE AccumulateUnseparated(_)
AccumulateUnseparated(blocks) ==
  IF blocks = <<>> THEN <<>>
  ELSE blocks[1].text \o AccumulateUnseparated(Tail(blocks))

\* all_ddl += f"\n\n{table_ddl}" for each collected text
RECURSIVE Accumulate(_)
Accumulate(blocks) ==
  IF blocks = <<>> THEN <<>>
  ELSE <<Blank>> \o blocks[1].text \o Accumulate(Tail(blocks))

RECURSIVE WildcardLoop(_, _, _, _)
WildcardLoop(names, results, queries, blocks) ==
  IF names = <<>>
  THEN Did(FALSE, Strip(Accumulate(blocks)), queries, blocks)
  ELSE IF names[1] = Wildcard
  THEN Did(TRUE, Err_recursion, queries, blocks)
  ELSE IF results[1].raised
  THEN Did(TRUE, results[1].value, queries \o results[1].queries, blocks)
  ELSE WildcardLoop(Tail(names), Tail(results), queries \o results[1].queries,
                    Append(blocks, [name |-> names[1], text |-> results[1].value]))

\* The rows of the table listing
ListingRows(listing, column) ==
  IF listing.raised THEN <<>>
  ELSE [i \in 1..Len(listing.names) |-> [c \in {column} |-> listing.names[i]]]

\* a wildcard branch without the test for an empty listing
ListingEmptyUntested(names) == FALSE

\* if not tables_result["data"]
ListingEmpty(names) == names = <<>>

\* ODBCConnector.get_ddl
odbc_get_ddl(object_name, type, db) ==
  LET object_type == LowerToken(type)
      q == Asked("tables", <<>>, db.listing.raised, ListingRows(db.listing, "name"))
      names == db.listing.names
  IN IF object_type = "table"
     THEN IF object_name = Wildcard
          THEN IF db.listing.raised THEN Did(TRUE, db.error, <<q>>, <<>>)
               ELSE IF ListingEmpty(names)
               THEN Did(FALSE, <<"-- No tables found in database">>, <<q>>, <<>>)
               ELSE WildcardLoop(names,
                                 [i \in 1..Len(names) |-> odbc_table_ddl(names[i], db.perTable[i])],
                                 <<q>>, <<>>)
          ELSE odbc_table_ddl(object_name, db)
     ELSE IF object_type \in {"view", "procedure", "stored_procedure", "function"}
     THEN odbc_module_ddl(object_name, object_type, db)
     ELSE Unsupported(object_type)

\* ----------------------------------------------- PostgresConnector.get_ddl
PublicPrefix == <<"public", ".">>

\* an except clause whose inner handler lets the second error escape
pg_table_except_reraise(name, db, queries) ==
  LET search_name == LowerText(name)
      qc == Asked(IF HasDot(search_name) THEN "pg_tables_by_schema_and_name"
                  ELSE "pg_tables_by_name",
                  search_name, db.lookup = "raise",
                  IF db.lookup = "found" THEN <<[full_name |-> db.actual]>> ELSE <<>>)
      qr == Asked("pg_get_tabledef", db.actual, db.retry = "raise",
                  IF db.retry = "text" THEN <<[ddl |-> db.tabledef]>> ELSE <<>>)
      notFound == <<"-- Table '">> \o name \o <<"' not found. Error: ">> \o db.error
  IN IF db.lookup = "raise" THEN Did(TRUE, db.error, queries \o <<qc>>, <<>>)
     ELSE IF db.lookup = "empty" THEN Did(FALSE, notFound, queries \o <<qc>>, <<>>)
     ELSE IF db.retry = "raise" THEN Did(TRUE, db.error, queries \o <<qc, qr>>, <<>>)
     ELSE IF db.retry = "text" THEN Did(FALSE, db.tabledef, queries \o <<qc, qr>>, <<>>)
     ELSE Did(FALSE, notFound, queries \o <<qc, qr>>, <<>>)

\* lines 226-263: the except clause of the single-table path.  name is
\* object_name as it stands when the exception is raised.
pg_table_except(name, db, queries) ==
  LET search_name == LowerText(name)
      qc == Asked(IF HasDot(search_name) THEN "pg_tables_by_schema_and_name"
                  ELSE "pg_tables_by_name",
                  search_name, db.lookup = "raise",
                  IF db.lookup = "found" THEN <<[full_name |-> db.actual]>> ELSE <<>>)
      qr == Asked("pg_get_tabledef", db.actual, db.retry = "raise",
                  IF db.retry = "text" THEN <<[ddl |-> db.tabledef]>> ELSE <<>>)
      notFound == <<"-- Table '">> \o name \o <<"' not found. Error: ">> \o db.error
      failed == <<"-- Error getting table definition: ">> \o db.error
  IN IF db.lookup = "raise" THEN Did(FALSE, failed, queries \o <<qc>>, <<>>)
     ELSE IF db.lookup = "empty" THEN Did(FALSE, notFound, queries \o <<qc>>, <<>>)
     ELSE IF db.retry = "raise" THEN Did(FALSE, failed, queries \o <<qc, qr>>, <<>>)
     ELSE IF db.retry = "text" THEN Did(FALSE, db.tabledef, queries \o <<qc, qr>>, <<>>)
     ELSE Did(FALSE, notFound, queries \o <<qc, qr>>, <<>>)

\* the schema-qualified names probed before the lowercased one
CandidatesQualifiedFirst(object_name) ==
  <<object_name, PublicPrefix \o object_name, LowerText(object_name),
    PublicPrefix \o LowerText(object_name)>>

\* lines 174-212: the names probed with to_regclass, in the order tried
Candidates(object_name) ==
  <<object_name, LowerText(object_name), PublicPrefix \o object_name,
    PublicPrefix \o LowerText(object_name)>>

ProbeCount == 4

\* lines 147, 174-263: get_ddl(object_name, "table") for one table.  db.probe[i]
\* is what the i-th to_regclass query does ("yes", "no", "empty", "raise"),
\* db.ddl what the pg_get_tabledef query does ("text", "empty", "raise").
pg_table_ddl(object_name, db) ==
  LET q0 == Asked("create_function", <<>>, db.createfn = "raise", <<>>)
      cand == Candidates(object_name)
      stop == {i \in 1..ProbeCount : db.probe[i] \in {"yes", "raise"}}
      k == IF stop = {} THEN ProbeCount ELSE CHOOSE i \in stop : \A j \in stop : i <= j
      probes == [i \in 1..k |->
                   Asked("to_regclass", cand[i], db.probe[i] = "raise",
                         CASE db.probe[i] = "yes" -> <<[exists |-> TRUE]>>
                           [] db.probe[i] = "no" -> <<[exists |-> FALSE]>>
                           [] OTHER -> <<>>)]
      resolved == IF db.probe[k] = "yes" THEN cand[k] ELSE object_name
      qd == Asked("pg_get_tabledef", resolved, db.ddl = "raise",
                  IF db.ddl = "text" THEN <<[ddl |-> db.tabledef]>> ELSE <<>>)
  IN IF db.probe[k] = "raise"
     THEN pg_table_except(object_name, db, <<q0>> \o probes)
     ELSE IF db.ddl = "raise"
     THEN pg_table_except(resolved, db, <<q0>> \o probes \o <<qd>>)
     ELSE IF db.ddl = "text"
     THEN Did(FALSE, db.tabledef, <<q0>> \o probes \o <<qd>>, <<>>)
     ELSE Did(FALSE, <<"-- Table ">> \o resolved \o <<" definition not found">>,
              <<q0>> \o probes \o <<qd>>, <<>>)

\* lines 265-358: view, function / procedure, trigger, sequence.  db.first and
\* db.second are what the query by name and, for a dotted name, the query by
\* schema and name do; db.rows is the number of rows a trigger query returns.
pg_object_ddl(object_name, object_type, db) ==
  LET found(how) == IF how = "found"
                    THEN [i \in 1..(IF object_type = "trigger" THEN db.rows ELSE 1) |->
                            [ddl |-> db.definition]]
                    ELSE <<>>
      q1 == Asked(object_type, object_name, db.first = "raise", found(db.first))
      q2 == Asked("by_schema_and_name", BeforeDot(object_name) \o AfterDot(object_name),
                  db.second = "raise", found(db.second))
      twice == object_type \in {"view", "function", "procedure"} /\ HasDot(object_name)
      label == CASE object_type = "view" -> "-- View "
                 [] object_type = "trigger" -> "-- Trigger "
                 [] object_type = "sequence" -> "-- Sequence "
                 [] OTHER -> "-- Function/Procedure "
      missing == <<label>> \o object_name \o <<" definition not found">>
      body == IF object_type = "trigger"
              THEN IF db.rows = 1 THEN db.definition \o <<";\n\n">>
                   ELSE db.definition \o <<";\n\n">> \o db.definition \o <<";\n\n">>
              ELSE db.definition
  IN IF db.first = "raise" THEN Did(TRUE, db.error, <<q1>>, <<>>)
     ELSE IF db.first = "found" THEN Did(FALSE, body, <<q1>>, <<>>)
     ELSE IF ~twice THEN Did(FALSE, missing, <<q1>>, <<>>)
     ELSE IF db.second = "raise" THEN Did(TRUE, db.error, <<q1, q2>>, <<>>)
     ELSE IF db.second = "found" THEN Did(FALSE, body, <<q1, q2>>, <<>>)
     ELSE Did(FALSE, missing, <<q1, q2>>, <<>>)

\* PostgresConnector.get_ddl
pg_get_ddl(object_name, type, db) ==
  LET object_type == LowerToken(type)
      q0 == Asked("create_function", <<>>, db.createfn = "raise", <<>>)
      q == Asked("tables", <<>>, db.listing.raised, ListingRows(db.listing, "table_name"))
      names == db.listing.names
  IN IF object_type = "table"
     THEN IF object_name = Wildcard
          THEN IF db.listing.raised THEN Did(TRUE, db.error, <<q0, q>>, <<>>)
               ELSE IF ListingEmpty(names)
               THEN Did(FALSE, <<"-- No tables found in the public schema">>, <<q0, q>>, <<>>)
               ELSE WildcardLoop(names,
                                 [i \in 1..Len(names) |-> pg_table_ddl(names[i], db.perTable[i])],
                                 <<q0, q>>, <<>>)
          ELSE pg_table_ddl(object_name, db)
     ELSE IF object_type \in {"view", "function", "procedure", "trigger", "sequence"}
     THEN pg_object_ddl(object_name, object_type, db)
     ELSE Unsupported(object_type)

\* ------------------------------------------------ what the database holds
\* str texts the database returns: a pg_get_tabledef result and a view /
\* routine / trigger / sequence definition
Text_tabledef == <<"CREATE TABLE public.orders (", "\n", "    id integer NOT NULL", "\n", ");">>
Text_definition == <<"CREATE OR REPLACE VIEW public.v AS", "\n", " SELECT 1;">>

NoListing == [raised |-> FALSE, names |-> <<>>]

\* A database that holds nothing and fails no query
EmptyDb ==
  [error |-> Err_driver, fail |-> 0, columns |-> <<>>, pk |-> <<>>, fk |-> <<>>,
   first |-> "empty", second |-> "empty", definition |-> Text_definition, rows |-> 1,
   createfn |-> "ok", probe |-> [i \in 1..ProbeCount |-> "no"], ddl |-> "raise",
   tabledef |-> Text_tabledef, lookup |-> "empty",
   actual |-> <<"public", ".", "Orders">>, retry |-> "raise",
   listing |-> NoListing, perTable |-> <<>>]

\* A database no query reaches: execute_query's connect() raises every time
Down(db) ==
  [db EXCEPT !.error = Err_connect, !.fail = 1, !.first = "raise", !.second = "raise",
             !.createfn = "raise", !.probe = [i \in 1..ProbeCount |-> "raise"],
             !.ddl = "raise", !.lookup = "raise", !.retry = "raise",
             !.listing = [raised |-> TRUE, names |-> <<>>]]

\* sys.columns rows
Column(name, type, len, precision, scale, nullable, identity) ==
  [column_name |-> name, data_type |-> type, max_length |-> len,
   precision |-> precision, scale |-> scale, is_nullable |-> nullable,
   is_identity |-> identity, column_id |-> 0]

ColumnKinds ==
  { Column("id", "int", 4, 10, 0, FALSE, TRUE),
    Column("total", "numeric", 9, 10, 2, TRUE, FALSE),
    Column("name", "varchar", 50, 0, 0, FALSE, FALSE),
    Column("notes", "nvarchar", -1, 0, 0, TRUE, FALSE) }

\* The rows ORDER BY c.column_id gives: distinct columns numbered in order
ColumnLists ==
  { [i \in 1..Len(cs) |-> [cs[i] EXCEPT !.column_id = i]] :
      cs \in { c \in SeqsUpTo(ColumnKinds, MaxColumns) :
                 \A i, j \in 1..Len(c) : i # j => c[i].column_name # c[j].column_name } }

PkRow(column) == [index_name |-> "PK_orders", column_name |-> column]
PkLists == { <<>>, <<PkRow("id")>>, <<PkRow("name"), PkRow("id")>> }

FkRow(name, column, table, referenced) ==
  [fk_name |-> name, parent_table |-> "orders", parent_column |-> column,
   referenced_table |-> table, referenced_column |-> referenced]

\* The rows ORDER BY fk.name, fkc.constraint_column_id gives
FkLists ==
  { <<>>,
    <<FkRow("FK_a", "customer_id", "customers", "id")>>,
    <<FkRow("FK_a", "region", "stores", "region"), FkRow("FK_a", "store", "stores", "id")>>,
    <<FkRow("FK_a", "customer_id", "customers", "id"),
      FkRow("FK_b", "region", "stores", "region"), FkRow("FK_b", "store", "stores", "id")>> }

OdbcTableDbs ==
  { [EmptyDb EXCEPT !.columns = c, !.pk = p, !.fk = f] :
      c \in ColumnLists, p \in PkLists, f \in FkLists }
  \cup { [EmptyDb EXCEPT !.fail = x] : x \in 1..3 }

\* What the one or two queries for a view, routine, trigger or sequence do
ObjectDbs ==
  { [EmptyDb EXCEPT !.first = a, !.rows = n] : a \in {"raise", "found"}, n \in {1, 2} }
  \cup { [EmptyDb EXCEPT !.second = b, !.rows = n] :
            b \in {"raise", "empty", "found"}, n \in {1, 2} }

\* What the queries of the single-table path do: the probes up to the first
\* that matches or raises, then the DDL query, the lookup and the retry
ProbeAnswers ==
  { p \in [1..ProbeCount -> {"yes", "no", "empty", "raise"}] :
      \A i \in 1..ProbeCount :
        (\E j \in 1..(i - 1) : p[j] \in {"yes", "raise"}) => p[i] = "no" }

PgTableDbs ==
  { [EmptyDb EXCEPT !.createfn = "raise", !.probe = p] : p \in ProbeAnswers }
  \cup
  { [EmptyDb EXCEPT !.probe = p, !.ddl = t.ddl, !.lookup = t.lookup, !.retry = t.retry] :
      p \in ProbeAnswers,
      t \in { [ddl |-> "text", lookup |-> "empty", retry |-> "raise"],
              [ddl |-> "empty", lookup |-> "empty", retry |-> "raise"],
              [ddl |-> "raise", lookup |-> "raise", retry |-> "raise"],
              [ddl |-> "raise", lookup |-> "empty", retry |-> "raise"],
              [ddl |-> "raise", lookup |-> "found", retry |-> "raise"],
              [ddl |-> "raise", lookup |-> "found", retry |-> "empty"],
              [ddl |-> "raise", lookup |-> "found", retry |-> "text"] } }

\* Table names in the order ORDER BY name gives them
TableNames == << <<"*">>, <<"Orders">>, <<"items">>, <<"orders">> >>

NameRank(name) == CHOOSE i \in 1..Len(TableNames) : TableNames[i] = name

Listings ==
  { l \in SeqsUpTo({TableNames[i] : i \in 1..Len(TableNames)}, MaxTables) :
      \A i, j \in 1..Len(l) : i < j => NameRank(l[i]) < NameRank(l[j]) }

\* The tables a wildcard call walks over: on ODBC a table with columns and
\* keys, a table the catalog has no rows for, a table whose key query fails; on
\* PostgreSQL a table found at once, one found by its lowercased name, one
\* never found, one found by the lookup
OdbcListedTables ==
  { [EmptyDb EXCEPT !.columns = <<[Column("id", "int", 4, 10, 0, FALSE, TRUE) EXCEPT !.column_id = 1]>>,
                    !.pk = <<PkRow("id")>>],
    EmptyDb,
    [EmptyDb EXCEPT !.fail = 2] }

PgListedTables ==
  { [EmptyDb EXCEPT !.probe[1] = "yes", !.ddl = "text"],
    [EmptyDb EXCEPT !.probe[2] = "yes", !.ddl = "text"],
    EmptyDb,
    [EmptyDb EXCEPT !.lookup = "found", !.retry = "text"] }

WildcardDbs(tables) ==
  { [EmptyDb EXCEPT !.listing = [raised |-> TRUE, names |-> <<>>]] }
  \cup UNION { { [EmptyDb EXCEPT !.listing = [raised |-> FALSE, names |-> l], !.perTable = t] :
                   t \in [1..Len(l) -> tables] } : l \in Listings }

ObjectNames == { <<"orders">>, <<"Orders">>, <<"sales", ".", "orders">> }

\* get_ddl(object_name, object_type) calls and what the database does in each
DdlCall(n, t, d) == [object_name |-> n, object_type |-> t, db |-> d]

ObjectCalls ==
  { DdlCall(n, t, d) : n \in ObjectNames,
                       t \in {"view", "View", "procedure", "stored_procedure",
                              "function", "trigger", "sequence", "index"},
                       d \in ObjectDbs }

OdbcCalls ==
  { DdlCall(<<"orders">>, "table", d) : d \in OdbcTableDbs }
  \cup { DdlCall(n, "TABLE", d) : n \in ObjectNames, d \in OdbcListedTables }
  \cup { DdlCall(Wildcard, "table", d) : d \in WildcardDbs(OdbcListedTables) }
  \cup ObjectCalls

PgCalls ==
  { DdlCall(n, "table", d) : n \in ObjectNames, d \in PgTableDbs }
  \cup { DdlCall(<<"Orders">>, "TABLE", d) : d \in PgListedTables }
  \cup { DdlCall(Wildcard, "table", d) : d \in WildcardDbs(PgListedTables) }
  \cup ObjectCalls

DdlCalls(kind) == IF kind = "ODBCConnector" THEN OdbcCalls ELSE PgCalls

\* The calls made while no connection can be established
DownCalls ==
  { [object_name |-> n, object_type |-> t, db |-> Down(EmptyDb)] :
      n \in ObjectNames \cup {Wildcard}, t \in {"table", "view", "trigger", "index"} }

\* connector.get_ddl(object_name, object_type)
get_ddl(conn, object_name, object_type, db) ==
  IF conn.kind = "ODBCConnector" THEN odbc_get_ddl(object_name, object_type, db)
  ELSE pg_get_ddl(object_name, object_type, db)

\* connector.get_ddl(...) on a Connector object.  The first query connects when
\* no connection is held; what the call does is independent of the other open
\* handles, so it is explored from the states without leaked handles.
ObjGetDdl ==
  /\ phase = "idle"
  /\ connector[1].kind # "none"
  /\ answer.op = "none"
  /\ live \subseteq {connector[1].connection}
  /\ \E driverOk \in BOOLEAN :
       LET c == EnsureConnected(connector[1], live, driverOk)
       IN \E a \in IF c.raised THEN DownCalls ELSE DdlCalls(connector[1].kind) :
            \E r \in {get_ddl(connector[1], a.object_name, a.object_type, a.db)} :
            LET queried == r.queries # <<>>
            IN /\ connector' = [connector EXCEPT ![1] = IF queried THEN c.conn ELSE @]
               /\ live' = IF queried THEN c.open ELSE live
               /\ request' = [op |-> "get_ddl", object_name |-> a.object_name,
                              object_type |-> a.object_type]
               /\ answer' = [op |-> "get_ddl", raised |-> r.raised, value |-> r.value,
                             queries |-> r.queries, blocks |-> r.blocks]
  /\ last' = NoCall
  /\ UNCHANGED <<codecVars, factoryVars, svcVars>>

NextConn == ObjConnect \/ ObjDisconnect \/ ObjExecuteQuery \/ ObjGetDdl

SpecConn == InitConn /\ [][NextConn]_vars

\* --------------------------------------------------- claims: get_ddl
\* The tokens a placeholder comment can open with, and those that say an
\* object was not found.
CommentOpeners ==
  {"-- No tables found in database", "-- No tables found in the public schema",
   "-- Table ", "-- Table '", "-- Error getting table definition: ", "-- View ",
   "-- Function ", "-- Stored procedure ", "-- Function/Procedure ", "-- Trigger ",
   "-- Sequence ", "-- DDL generation for "}

NotFoundOpeners ==
  {"-- Table ", "-- Table '", "-- View ", "-- Function ", "-- Stored procedure ",
   "-- Function/Procedure ", "-- Trigger ", "-- Sequence "}

\* A get_ddl call for a named object the catalog does not hold: every query
\* the call issued went through and found nothing (on PostgreSQL the cast of an
\* unknown name to regclass in the pg_get_tabledef query fails).
C13_Absent ==
  /\ answer.op = "get_ddl"
  /\ request.object_name # Wildcard
  /\ answer.queries # <<>>
  /\ \A i \in 1..Len(answer.queries) :
       LET asked == answer.queries[i]
       IN /\ asked.ans.raised => asked.q \in {"pg_get_tabledef", "create_function"}
          /\ asked.q = "to_regclass" =>
               \A j \in 1..Len(asked.ans.data) : ~asked.ans.data[j].exists
          /\ asked.q # "to_regclass" => asked.ans.data = <<>>

\* C13 (as claimed): get_ddl of a named object the catalog does not hold
\* returns, for every object kind and both variants, a not-found placeholder
\* comment: no error and no synthesized DDL block.
C13_NotFoundPlaceholder ==
  C13_Absent =>
    /\ ~answer.raised
    /\ answer.value # <<>>
    /\ answer.value[1] \in NotFoundOpeners

\* C14: get_ddl("*", "table") on a database whose table listing is empty
\* returns the "no tables found" comment on both variants: it raises nothing,
\* the text is not empty, and no query is issued for any table.
C14_EmptyListing ==
  (/\ answer.op = "get_ddl"
   /\ request.object_name = Wildcard
   /\ LowerToken(request.object_type) = "table"
   /\ \E i \in 1..Len(answer.queries) :
        /\ answer.queries[i].q = "tables"
        /\ ~answer.queries[i].ans.raised
        /\ answer.queries[i].ans.data = <<>>)
  => /\ ~answer.raised
     /\ answer.value # <<>>
     /\ answer.value = IF connector[1].kind = "ODBCConnector"
                       THEN <<"-- No tables found in database">>
                       ELSE <<"-- No tables found in the public schema">>
     /\ answer.blocks = <<>>
     /\ \A i \in 1..Len(answer.queries) :
          answer.queries[i].q \in {"create_function", "tables"}

C14_Witness ==
  /\ answer.op = "get_ddl"
  /\ request.object_name = Wildcard
  /\ connector[1].kind = "PostgresConnector"
  /\ Len(answer.queries) = 2
  /\ answer.queries[2].q = "tables" /\ ~answer.queries[2].ans.raised
  /\ answer.value = <<"-- No tables found in the public schema">>

\* The names the table listing query of a wildcard call returned
C15_Listed ==
  LET at == CHOOSE i \in 1..Len(answer.queries) : answer.queries[i].q = "tables"
      rows == answer.queries[at].ans.data
  IN [i \in 1..Len(rows) |->
        IF connector[1].kind = "ODBCConnector" THEN rows[i].name ELSE rows[i].table_name]

\* The texts with one blank line between consecutive ones
RECURSIVE C15_Joined(_)
C15_Joined(texts) ==
  IF texts = <<>> THEN <<>>
  ELSE IF Len(texts) = 1 THEN texts[1]
  ELSE texts[1] \o <<Blank>> \o C15_Joined(Tail(texts))

\* C15: the text a wildcard table request returns is made of exactly one
\* single-table text per listed table, in the alphabetical order of the names,
\* with one blank line between consecutive texts and no whitespace at either end.
C15_WildcardText ==
  (/\ answer.op = "get_ddl"
   /\ request.object_name = Wildcard
   /\ LowerToken(request.object_type) = "table"
   /\ ~answer.raised
   /\ answer.blocks # <<>>)
  => LET listed == C15_Listed
         blocks == answer.blocks
     IN /\ Len(blocks) = Len(listed)
        /\ \A i \in 1..Len(blocks) : blocks[i].name = listed[i]
        /\ \A i, j \in 1..Len(blocks) :
             i < j => NameRank(blocks[i].name) < NameRank(blocks[j].name)
        /\ answer.value = Strip(C15_Joined([i \in 1..Len(blocks) |-> blocks[i].text]))
        /\ answer.value # <<>>
        /\ answer.value[1] \notin WhiteTokens
        /\ answer.value[Len(answer.value)] \notin WhiteTokens

C15_Witness ==
  /\ answer.op = "get_ddl"
  /\ request.object_name = Wildcard
  /\ connector[1].kind = "PostgresConnector"
  /\ ~answer.raised
  /\ Len(answer.blocks) = MaxTables
  /\ answer.blocks[1].text = Text_tabledef
  /\ answer.blocks[MaxTables].text[Len(answer.blocks[MaxTables].text)] \in WhiteTokens

\* A single-table get_ddl call on the ODBC variant that returned a text
C16_OdbcTable ==
  /\ answer.op = "get_ddl"
  /\ connector[1].kind = "ODBCConnector"
  /\ LowerToken(request.object_type) = "table"
  /\ request.object_name # Wildcard
  /\ ~answer.raised

\* Where the column lines of the CREATE TABLE block begin, where the block
\* closes, and the i-th column line
C16_Starts(v) ==
  SelectSeq([k \in 1..Len(v) |-> k], LAMBDA k : v[k] = "    ")

C16_Close(v) == CHOOSE k \in 1..Len(v) : v[k] = "\n);"

C16_Line(v, i) ==
  LET starts == C16_Starts(v)
  IN SubSeq(v, starts[i],
            IF i < Len(starts) THEN starts[i + 1] - 1 ELSE C16_Close(v) - 1)

C16_Has(line, piece) == \E k \in 1..Len(line) : line[k] = piece

\* C16: the ODBC single-table text has one column line per catalog column, in
\* ordinal order, inside the CREATE TABLE block; character types carry
\* "(length)" or "(MAX)", decimal and numeric "(precision, scale)", every line
\* NOT NULL or NULL, identity columns IDENTITY(1,1); the primary-key ALTER TABLE
\* follows the block exactly when the table has a primary key and lists its
\* columns in key order.
C16_ColumnLines ==
  C16_OdbcTable =>
    LET v == answer.value
        cols == answer.queries[1].ans.data
        pk == answer.queries[2].ans.data
        starts == C16_Starts(v)
        closeAt == C16_Close(v)
        pkAt == {k \in 1..Len(v) : v[k] = " PRIMARY KEY ("}
    IN /\ v[1] = "CREATE TABLE "
       /\ SubSeq(v, 2, 1 + Len(request.object_name)) = request.object_name
       /\ Len(starts) = Len(cols)
       /\ \A i \in 1..Len(cols) :
            LET line == C16_Line(v, i)
                col == cols[i]
            IN /\ starts[i] < closeAt
               /\ col.column_id = i
               /\ SubSeq(line, 1, 4) = <<"    ", col.column_name, " ", col.data_type>>
               /\ IF col.data_type \in CharTypes
                  THEN Contains(line, <<col.data_type, "(">>
                                      \o (IF col.max_length = -1 THEN <<"MAX">>
                                          ELSE IntText(col.max_length))
                                      \o <<")">>)
                  ELSE IF col.data_type \in DecimalTypes
                  THEN Contains(line, <<col.data_type, "(">> \o IntText(col.precision)
                                      \o <<", ">> \o IntText(col.scale) \o <<")">>)
                  ELSE ~C16_Has(line, "(")
               /\ ~C16_Has(line, "-")
               /\ C16_Has(line, " NOT NULL") <=> ~col.is_nullable
               /\ C16_Has(line, " NULL") <=> col.is_nullable
               /\ C16_Has(line, " IDENTITY(1,1)") <=> col.is_identity
               /\ (i < Len(cols)) <=> (line[Len(line)] = ",\n")
       /\ (pkAt # {}) <=> (pk # <<>>)
       /\ \A k \in pkAt :
            /\ k > closeAt
            /\ SubSeq(v, closeAt + 1, k) =
                 <<"\n\nALTER TABLE ">> \o request.object_name
                 \o <<" ADD CONSTRAINT ", pk[1].index_name, " PRIMARY KEY (">>
            /\ SubSeq(v, k + 1, k + 2 * Len(pk)) =
                 JoinTokens([i \in 1..Len(pk) |-> pk[i].column_name], ", ") \o <<");">>
       /\ Cardinality(pkAt) <= 1

\* The scenario of a table orders with id (identity, not null) and total
\* (numeric(10,2), nullable) whose primary key is id.
C16_Witness ==
  /\ C16_OdbcTable
  /\ request.object_name = <<"orders">>
  /\ Len(answer.queries[1].ans.data) = 2
  /\ answer.queries[1].ans.data[1].column_name = "id"
  /\ answer.queries[1].ans.data[2].column_name = "total"
  /\ answer.queries[2].ans.data = <<PkRow("id")>>
  /\ Contains(answer.value, <<"    ", "id", " ", "int", " NOT NULL", " IDENTITY(1,1)", ",\n">>)
  /\ Contains(answer.value, <<"total", " ", "numeric", "(", "1", "0", ", ", "2", ")", " NULL", "\n);">>)
  /\ Contains(answer.value, <<" PRIMARY KEY (", "id", ");">>)

\* The rows of one constraint, in the order the foreign-key query gave them
C17_RowsOf(fk, name) == SelectSeq(fk, LAMBDA row : row.fk_name = name)

\* C17: the ODBC single-table text holds exactly one FOREIGN KEY statement per
\* distinct constraint name of the foreign-key query; a multi-column key gives
\* one statement with parent and referenced columns pairwise in the order of
\* the rows, and no constraint name is in two statements.
C17_ForeignKeys ==
  C16_OdbcTable =>
    LET v == answer.value
        fk == answer.queries[3].ans.data
        names == {fk[i].fk_name : i \in 1..Len(fk)}
        at == {k \in 1..Len(v) : v[k] = "FOREIGN KEY ("}
    IN /\ Cardinality(at) = Cardinality(names)
       /\ \A k \in at : v[k - 2] \in names /\ v[k - 3] = " ADD CONSTRAINT "
       /\ \A k1 \in at : \A k2 \in at : v[k1 - 2] = v[k2 - 2] => k1 = k2
       /\ \A name \in names :
            \E k \in at :
              LET rows == C17_RowsOf(fk, name)
                  n == Len(rows)
              IN /\ v[k - 2] = name
                 /\ SubSeq(v, k - 5, k - 4) = <<"\n\nALTER TABLE ", rows[1].parent_table>>
                 /\ \A i \in 1..n : v[k + 2 * i - 1] = rows[i].parent_column
                 /\ \A i \in 1..(n - 1) : v[k + 2 * i] = ", "
                 /\ SubSeq(v, k + 2 * n, k + 2 * n + 2) =
                      <<") REFERENCES ", rows[1].referenced_table, " (">>
                 /\ \A i \in 1..n : v[k + 2 * n + 2 * i + 1] = rows[i].referenced_column
                 /\ \A i \in 1..(n - 1) : v[k + 2 * n + 2 * i + 2] = ", "
                 /\ v[k + 4 * n + 2] = ");"

\* A table with a one-column constraint FK_a and a two-column constraint FK_b
C17_Witness ==
  /\ C16_OdbcTable
  /\ Len(answer.queries[3].ans.data) = 3
  /\ answer.queries[3].ans.data[2].fk_name = answer.queries[3].ans.data[3].fk_name
  /\ Contains(answer.value,
              <<" ADD CONSTRAINT ", "FK_b", " ", "FOREIGN KEY (", "region", ", ", "store",
                ") REFERENCES ", "stores", " (", "region", ", ", "id", ");">>)
  /\ Contains(answer.value, <<" ADD CONSTRAINT ", "FK_a", " ", "FOREIGN KEY (">>)

\* A get_ddl call for one named table on the PostgreSQL variant
C18_PgTable ==
  /\ answer.op = "get_ddl"
  /\ connector[1].kind = "PostgresConnector"
  /\ LowerToken(request.object_type) = "table"
  /\ request.object_name # Wildcard

C18_Probes == SelectSeq(answer.queries, LAMBDA e : e.q = "to_regclass")

C18_Matched(e) ==
  ~e.ans.raised /\ e.ans.data # <<>> /\ e.ans.data[1].exists

\* C18: the PostgreSQL single-table path probes (a) the exact name, (b) the
\* lowercased name, (c) public.<exact name>, (d) public.<lowercased name> in
\* this order; no candidate is probed after one that exists, and the first
\* that exists is the name of the DDL lookup.
C18_ResolutionOrder ==
  C18_PgTable =>
    LET name == request.object_name
        order == <<name, LowerText(name), <<"public", ".">> \o name,
                   <<"public", ".">> \o LowerText(name)>>
        probes == C18_Probes
        n == Len(probes)
    IN /\ n \in 1..4
       /\ \A i \in 1..n : answer.queries[i + 1] = probes[i] /\ probes[i].arg = order[i]
       /\ \A i \in 1..(n - 1) : ~C18_Matched(probes[i]) /\ ~probes[i].ans.raised
       /\ n < 4 => C18_Matched(probes[n]) \/ probes[n].ans.raised
       /\ ~probes[n].ans.raised =>
            /\ Len(answer.queries) >= n + 2
            /\ answer.queries[n + 2].q = "pg_get_tabledef"
            /\ answer.queries[n + 2].arg = IF C18_Matched(probes[n]) THEN order[n] ELSE name

\* "Orders" does not exist, "orders" does: two probes, and the lookup of orders
C18_Witness ==
  /\ C18_PgTable
  /\ request.object_name = <<"Orders">>
  /\ Len(C18_Probes) = 2
  /\ ~C18_Matched(C18_Probes[1])
  /\ C18_Matched(C18_Probes[2])
  /\ answer.queries[4].q = "pg_get_tabledef"
  /\ answer.queries[4].arg = <<"orders">>
  /\ answer.value = Text_tabledef

\* The queries of the try block that raised, and the catalog lookup
C19_Failed ==
  \E i \in 1..Len(answer.queries) :
    /\ answer.queries[i].q \in {"to_regclass", "pg_get_tabledef"}
    /\ answer.queries[i].ans.raised
    /\ \A j \in 1..(i - 1) : answer.queries[j].q \in {"create_function", "to_regclass"}

C19_LookupAt ==
  {i \in 1..Len(answer.queries) :
     answer.queries[i].q \in {"pg_tables_by_name", "pg_tables_by_schema_and_name"}}

\* C19: get_ddl for one named table on the PostgreSQL variant never raises.
\* When a query of the fallback chain fails it looks the table up in pg_tables
\* by its lowercased name and, given a row, retries with the row's qualified
\* name; the answer is the DDL text of the last pg_get_tabledef query that gave
\* one, and a comment text in every other case.
C19_NeverRaises ==
  C18_PgTable =>
    LET qs == answer.queries
        n == Len(qs)
    IN /\ ~answer.raised
       /\ (C19_LookupAt # {}) <=> C19_Failed
       /\ \A i \in C19_LookupAt :
            /\ i > 1 /\ qs[i - 1].ans.raised
            /\ Cardinality(C19_LookupAt) = 1
            /\ ~qs[i].ans.raised /\ qs[i].ans.data # <<>> =>
                 /\ n = i + 1
                 /\ qs[n].q = "pg_get_tabledef"
                 /\ qs[n].arg = qs[i].ans.data[1].full_name
            /\ qs[i].ans.raised \/ qs[i].ans.data = <<>> => n = i
       /\ IF qs[n].q = "pg_get_tabledef" /\ ~qs[n].ans.raised /\ qs[n].ans.data # <<>>
          THEN answer.value = qs[n].ans.data[1].ddl
          ELSE answer.value # <<>> /\ answer.value[1] \in CommentOpeners

\* The lookup recovers public.Orders after the DDL query failed, and the retry
\* returns its definition
C19_Witness ==
  /\ C18_PgTable
  /\ C19_Failed
  /\ \E i \in C19_LookupAt :
       /\ answer.queries[i].ans.data = <<[full_name |-> <<"public", ".", "Orders">>]>>
       /\ answer.queries[i + 1].arg = <<"public", ".", "Orders">>
       /\ answer.value = answer.queries[i + 1].ans.data[1].ddl

\* Every strategy fails, the lookup included, and the answer is a comment
C19_WitnessExhausted ==
  /\ C18_PgTable
  /\ C19_Failed
  /\ \E i \in C19_LookupAt : answer.queries[i].ans.raised
  /\ ~answer.raised
  /\ answer.value[1] = "-- Error getting table definition: "

\* ------------------------------------------------------------------- JSON
\* json.dumps(value, default=str) followed by json.loads: JSON-native values come
\* back as they were; any other value comes back as the str default=str made
\* of it.
JsonCell(c) == IF c.t \in {"int", "str"} THEN c ELSE Cell("str", c.v)

JsonQueryResult(q) ==
  [columns |-> q.columns,
   data |-> [i \in 1..Len(q.data) |->
               [name \in DOMAIN q.data[i] |-> JsonCell(q.data[i][name])]],
   row_count |-> q.row_count,
   affected_rows |-> q.affected_rows]

JsonRoundTrip(value) ==
  IF "result" \in DOMAIN value
  THEN [value EXCEPT !.result = JsonQueryResult(value.result)]
  ELSE value

\* json.dumps(cache_result, default=str): the text stored, kept as the document
\* it denotes.
json_dumps(value) == [json |-> JsonRoundTrip(value)]

\* json.loads(cached_result)
json_loads(doc) == doc.json

\* Stored texts the wrapper did not write: one that is not JSON, on which
\* json.loads raises, and a JSON list, on which result['cached'] = True raises
ForeignValues == {[text |-> "not json"], [text |-> "[1]"]}

\* Whether json.loads(doc) gives a dict
LoadsAsDict(doc) == "json" \in DOMAIN doc

\* --------------------------------------------------------- db_service.py
Returned(value) == [raised |-> FALSE, value |-> value]
Escaped(error) == [raised |-> TRUE, value |-> [status |-> "raised", error |-> error]]

\* The dict a service function returns on success (lines 35-41 and 80-87).
SuccessResult(a, payload) ==
  IF a.op = "execute_query_with_cache"
  THEN [status |-> "success", result |-> payload, query |-> a.subject,
        db_type |-> a.db_type, cached |-> FALSE]
  ELSE [status |-> "success", ddl |-> payload, object_name |-> a.subject,
        object_type |-> "table", db_type |-> a.db_type, cached |-> FALSE]

\* The dict the except clause of a service function returns (lines 42-49 and
\* 88-99).
ErrorResult(a, error) ==
  IF a.op = "execute_query_with_cache"
  THEN [status |-> "error", error |-> error, query |-> a.subject,
        db_type |-> a.db_type, cached |-> FALSE]
  ELSE [status |-> "error", error |-> error, object_name |-> a.subject,
        object_type |-> "table", db_type |-> a.db_type, cached |-> FALSE]

\* a service function without its try/except
ServiceReraise(a, error) == Escaped(error)

\* except Exception as e: return {...}
ServiceExcept(a, error) == Returned(ErrorResult(a, error))

\* ---------------------------------------------------------- redis_cache.py
\* a wrapper that ignores cache_enabled
UseCacheAlways(a) == TRUE

\* cache_enabled = kwargs.pop('cache_enabled', False); if not cache_enabled: ...
UseCache(a) == a.cache_enabled

\* a key computed before the cache settings are popped
CacheKeyWithSettings(a) ==
  <<a.op, a.connection_string, a.db_type, a.subject, a.cache_ttl>>

\* cache_key: the function name and the remaining arguments; md5 is taken to be
\* collision-free, so the key is the data hashed.
CacheKey(a) == <<a.op, a.connection_string, a.db_type, a.subject>>

Entry(k) == {e \in store : e.key = k}

\* a read block that never finds the entry
CacheReadNeverHits(a, up) ==
  IF ~up THEN [hit |-> FALSE, failed |-> TRUE, unparsed |-> FALSE, out |-> NoResult]
  ELSE [hit |-> FALSE, failed |-> FALSE, unparsed |-> FALSE, out |-> NoResult]

\* a read block that returns the stored dict as it was written
CacheReadUnmarked(a, up) ==
  IF ~up THEN [hit |-> FALSE, failed |-> TRUE, unparsed |-> FALSE, out |-> NoResult]
  ELSE IF Entry(CacheKey(a)) = {}
  THEN [hit |-> FALSE, failed |-> FALSE, unparsed |-> FALSE, out |-> NoResult]
  ELSE LET cached_result == (CHOOSE e \in Entry(CacheKey(a)) : TRUE).value
       IN IF ~LoadsAsDict(cached_result)
          THEN [hit |-> FALSE, failed |-> FALSE, unparsed |-> TRUE, out |-> NoResult]
          ELSE [hit |-> TRUE, failed |-> FALSE, unparsed |-> FALSE,
                out |-> Returned(json_loads(cached_result))]

\* What the read block (lines 63-80) does.  up: whether Redis answers.  A hit
\* returns the stored dict with cached = True; a Redis error is printed and
\* the call goes on.
CacheRead(a, up) ==
  IF ~up THEN [hit |-> FALSE, failed |-> TRUE, unparsed |-> FALSE, out |-> NoResult]
  ELSE IF Entry(CacheKey(a)) = {}
  THEN [hit |-> FALSE, failed |-> FALSE, unparsed |-> FALSE, out |-> NoResult]
  ELSE LET cached_result == (CHOOSE e \in Entry(CacheKey(a)) : TRUE).value
       IN IF ~LoadsAsDict(cached_result)
          THEN [hit |-> FALSE, failed |-> FALSE, unparsed |-> TRUE, out |-> NoResult]
          ELSE [hit |-> TRUE, failed |-> FALSE, unparsed |-> FALSE,
                out |-> Returned([json_loads(cached_result) EXCEPT !.cached = TRUE])]

\* The entry setex writes (lines 86-99): a copy of the result with cached = False.
CacheEntry(a, value) ==
  [key |-> CacheKey(a),
   value |-> json_dumps([value EXCEPT !.cached = FALSE]),
   ttl |-> a.cache_ttl]

\* a write block without its try/except
OnWriteErrorRaise(r) == Escaped(Msg_refused)

\* What the caller gets when setex fails (lines 100-104): the error is printed
\* and the live result returned.
OnWriteError(r) == r

\* a read block without its try/except
OnReadErrorRaise(r) == Escaped(Msg_refused)

\* What the caller gets when the read fails (lines 78-81): nothing yet, the
\* function is executed.
OnReadError(r) == r

\* a wrapper that returns the live result without storing it
AfterFuncUnstored(a, r) == "done"

\* a wrapper that stores successes only
AfterFuncSuccessOnly(a, r) ==
  IF r.raised THEN "done"
  ELSE IF UseCache(a) /\ r.value.status = "success" THEN "write" ELSE "done"

\* a wrapper that calls the function again when it returned an error
AfterFuncAgain(a, r) ==
  IF r.raised THEN "done"
  ELSE IF r.value.status = "error" THEN "func"
  ELSE IF UseCache(a) THEN "write" ELSE "done"

\* Where a call goes once the wrapped function has returned r.
AfterFunc(a, r) ==
  IF r.raised THEN "done" ELSE IF UseCache(a) THEN "write" ELSE "done"

\* ------------------------------------------------------- the service calls
ActiveCallers == {1}

\* "postgres", "ODBC", "bogus" as a caller may give them
ServiceTags == {Tag_postgres, [i \in 1..Len(Tag_odbc) |-> UpperChar(Tag_odbc[i])],
                <<98, 111, 103, 117, 115>>}

DefaultTTL == 3600

CallArgs ==
  { [op |-> o.op, connection_string |-> Conn_kv, db_type |-> t, subject |-> o.subject,
     cache_enabled |-> e, cache_ttl |-> DefaultTTL] :
      o \in { [op |-> "execute_query_with_cache", subject |-> "SELECT ..."],
              [op |-> "get_ddl_with_cache", subject |-> "orders"] },
      t \in ServiceTags, e \in BOOLEAN }

\* Cached calls as the routes make them with a cache_ttl from the request body:
\* both operations with two TTLs, and one with another db_type
KeyedCallArgs ==
  { [op |-> o.op, connection_string |-> Conn_kv, db_type |-> Tag_postgres,
     subject |-> o.subject, cache_enabled |-> TRUE, cache_ttl |-> ttl] :
      o \in { [op |-> "execute_query_with_cache", subject |-> "SELECT ..."],
              [op |-> "get_ddl_with_cache", subject |-> "orders"] },
      ttl \in {DefaultTTL, 60} }
  \cup
  { [op |-> "get_ddl_with_cache", connection_string |-> Conn_kv,
     db_type |-> <<98, 111, 103, 117, 115>>, subject |-> "orders",
     cache_enabled |-> TRUE, cache_ttl |-> DefaultTTL] }

Init ==
  /\ CodecIdle
  /\ CatalogIdle
  /\ FactoryIdle
  /\ ConnIdle
  /\ SvcIdle

\* A route calls execute_query_with_cache / get_ddl_with_cache: the wrapper pops
\* the cache settings and either calls the function or goes to the store.
CallWith(c, arguments) ==
  /\ pc[c] = "idle"
  /\ phase = "idle"
  /\ completed < MaxCalls
  /\ \E a \in arguments :
       /\ call' = [call EXCEPT ![c] = a]
       /\ pc' = [pc EXCEPT ![c] = IF UseCache(a) THEN "lookup" ELSE "func"]
  /\ ret' = [ret EXCEPT ![c] = NoResult]
  /\ trace' = [trace EXCEPT ![c] = [NoTrace EXCEPT !.gap = expired]]
  /\ expired' = FALSE
  /\ UNCHANGED <<codecVars, factoryVars, catalogVars, connVars, store, prev, completed>>

Call(c) == CallWith(c, CallArgs)

KeyedCall(c) == CallWith(c, KeyedCallArgs)

\* redis_client.get(cache_key) and the handling of what it returns.
CacheGet(c) ==
  /\ pc[c] = "lookup"
  /\ \E up \in BOOLEAN :
       LET r == CacheRead(call[c], up)
           out == IF r.failed THEN OnReadError(r.out) ELSE r.out
       IN /\ trace' = [trace EXCEPT ![c].reads = @ + 1,
                                    ![c].readFailed = r.failed,
                                    ![c].unparsed = r.unparsed]
          /\ ret' = [ret EXCEPT ![c] = out]
          /\ pc' = [pc EXCEPT ![c] = IF r.hit \/ out.raised THEN "done" ELSE "func"]
  /\ UNCHANGED <<codecVars, factoryVars, catalogVars, connVars, call, store, expired, prev, completed>>

\* func(*args): connector = get_db_connector(connection_string, db_type)
FuncCreate(c) ==
  /\ pc[c] = "func"
  /\ LET a == call[c]
         made_ == get_db_connector(a.connection_string, a.db_type)
         r == ServiceExcept(a, made_.val)
     IN IF made_.ok
        THEN /\ connector' = [connector EXCEPT ![c] = made_.val]
             /\ pc' = [pc EXCEPT ![c] = "connect"]
             /\ trace' = [trace EXCEPT ![c].invoked = @ + 1, ![c].created = @ + 1]
             /\ ret' = ret
        ELSE /\ connector' = connector
             /\ pc' = [pc EXCEPT ![c] = AfterFunc(a, r)]
             /\ trace' = [trace EXCEPT ![c].invoked = @ + 1, ![c].failed = TRUE,
                                       ![c].error = made_.val, ![c].live = r]
             /\ ret' = [ret EXCEPT ![c] = r]
  /\ UNCHANGED <<codecVars, factoryVars, catalogVars, live, last, call, store, expired, prev, completed>>

\* connector.connect()
FuncConnect(c) ==
  /\ pc[c] = "connect"
  /\ Cardinality(live) < MaxHandles
  /\ \E driverOk \in BOOLEAN :
       LET a == call[c]
           r == ConnectorConnect(connector[c], live, driverOk)
           failed == ServiceExcept(a, r.error)
       IN /\ connector' = [connector EXCEPT ![c] = r.conn]
          /\ live' = r.open
          /\ IF r.raised
             THEN /\ ret' = [ret EXCEPT ![c] = failed]
                  /\ pc' = [pc EXCEPT ![c] = AfterFunc(a, failed)]
                  /\ trace' = [trace EXCEPT ![c].connects = @ + 1, ![c].failed = TRUE,
                                            ![c].error = r.error, ![c].live = failed]
             ELSE /\ ret' = ret
                  /\ pc' = [pc EXCEPT ![c] = "run"]
                  /\ trace' = [trace EXCEPT ![c].connects = @ + 1]
  /\ UNCHANGED <<codecVars, factoryVars, catalogVars, last, call, store, expired, prev, completed>>

\* result = connector.execute_query(query) / ddl = connector.get_ddl(name, type).
\* The connection is held, so neither reconnects.  The statement is rejected, or
\* the cursor reports one of Cursors; get_ddl returns a DDL text or raises.
FuncRun(c) ==
  /\ pc[c] = "run"
  /\ LET a == call[c]
         failed == ServiceExcept(a, Msg_rejected)
     IN \/ /\ ret' = [ret EXCEPT ![c] = failed]
           /\ pc' = [pc EXCEPT ![c] = AfterFunc(a, failed)]
           /\ trace' = [trace EXCEPT ![c].runs = @ + 1, ![c].failed = TRUE,
                                     ![c].error = Msg_rejected, ![c].live = failed]
        \/ /\ a.op = "execute_query_with_cache"
           /\ \E cur \in Cursors :
                ret' = [ret EXCEPT ![c] =
                          Returned(SuccessResult(a, execute_query(connector[c], cur)))]
           /\ pc' = [pc EXCEPT ![c] = "disconnect"]
           /\ trace' = [trace EXCEPT ![c].runs = @ + 1]
        \/ /\ a.op = "get_ddl_with_cache"
           /\ ret' = [ret EXCEPT ![c] =
                        Returned(SuccessResult(a, "CREATE TABLE orders (...)"))]
           /\ pc' = [pc EXCEPT ![c] = "disconnect"]
           /\ trace' = [trace EXCEPT ![c].runs = @ + 1]
  /\ UNCHANGED <<codecVars, factoryVars, catalogVars, connVars, call, store, expired, prev, completed>>

\* connector.disconnect(), then the return of the success dict.
FuncDisconnect(c) ==
  /\ pc[c] = "disconnect"
  /\ \E closeOk \in BOOLEAN : \E released \in BOOLEAN :
       LET a == call[c]
           r == ConnectorDisconnect(connector[c], live, closeOk, released)
           out == IF r.raised THEN ServiceExcept(a, Msg_close) ELSE ret[c]
       IN /\ connector' = [connector EXCEPT ![c] = r.conn]
          /\ live' = r.open
          /\ ret' = [ret EXCEPT ![c] = out]
          /\ pc' = [pc EXCEPT ![c] = AfterFunc(a, out)]
          /\ trace' = [trace EXCEPT ![c].disconnects = @ + 1,
                                    ![c].failed = r.raised,
                                    ![c].error = IF r.raised THEN Msg_close ELSE <<>>,
                                    ![c].live = out]
  /\ UNCHANGED <<codecVars, factoryVars, catalogVars, last, call, store, expired, prev, completed>>

\* redis_client.setex(cache_key, cache_ttl, json.dumps(cache_result, default=str))
CacheSet(c) ==
  /\ pc[c] = "write"
  /\ \E up \in BOOLEAN :
       /\ store' = IF up
                   THEN (store \ Entry(CacheKey(call[c])))
                        \cup {CacheEntry(call[c], ret[c].value)}
                   ELSE store
       /\ trace' = [trace EXCEPT ![c].writes = @ + 1, ![c].writeFailed = ~up]
       /\ ret' = [ret EXCEPT ![c] = IF up THEN @ ELSE OnWriteError(@)]
  /\ pc' = [pc EXCEPT ![c] = "done"]
  /\ UNCHANGED <<codecVars, factoryVars, catalogVars, connVars, call, expired, prev, completed>>

\* The call returns to the route; the Connector object goes out of scope.
Return(c) ==
  /\ pc[c] = "done"
  /\ pc' = [pc EXCEPT ![c] = "idle"]
  /\ prev' = [args |-> call[c], result |-> ret[c],
              trace |-> [trace[c] EXCEPT !.expired = expired]]
  /\ expired' = FALSE
  /\ completed' = completed + 1
  /\ connector' = [connector EXCEPT ![c] = NoConnector]
  /\ call' = [call EXCEPT ![c] = NoArgs]
  /\ ret' = [ret EXCEPT ![c] = NoResult]
  /\ trace' = [trace EXCEPT ![c] = NoTrace]
  /\ UNCHANGED <<codecVars, factoryVars, catalogVars, live, last, store>>

\* Redis drops an entry whose TTL has elapsed.
Expire ==
  /\ \E e \in store : store' = store \ {e}
  /\ expired' = TRUE
  /\ UNCHANGED <<codecVars, factoryVars, catalogVars, connVars, pc, call, ret, trace, prev, completed>>

Next ==
  \/ \E c \in ActiveCallers :
       \/ Call(c) \/ CacheGet(c) \/ FuncCreate(c) \/ FuncConnect(c)
       \/ FuncRun(c) \/ FuncDisconnect(c) \/ CacheSet(c) \/ Return(c)
  \/ Expire

Spec == Init /\ [][Next]_vars

\* The same machine driven by the cached calls of KeyedCallArgs
NextKeyed ==
  \/ \E c \in ActiveCallers :
       \/ KeyedCall(c) \/ CacheGet(c) \/ FuncCreate(c) \/ FuncConnect(c)
       \/ FuncRun(c) \/ FuncDisconnect(c) \/ CacheSet(c) \/ Return(c)
  \/ Expire

SpecKeyed == Init /\ [][NextKeyed]_vars

\* Two requests in flight at once (the WSGI server runs the routes in
\* parallel), both making the same cached call
RacingCallArgs ==
  { [op |-> "execute_query_with_cache", connection_string |-> Conn_kv,
     db_type |-> Tag_postgres, subject |-> "SELECT ...",
     cache_enabled |-> TRUE, cache_ttl |-> DefaultTTL] }

\* at most MaxCalls calls are begun in all
RacingCall(c) ==
  /\ completed + Cardinality({d \in Callers : pc[d] # "idle"}) < MaxCalls
  /\ CallWith(c, RacingCallArgs)

NextRacing ==
  \/ \E c \in Callers :
       \/ RacingCall(c) \/ CacheGet(c) \/ FuncCreate(c) \/ FuncConnect(c)
       \/ FuncRun(c) \/ FuncDisconnect(c) \/ CacheSet(c) \/ Return(c)
  \/ Expire

SpecRacing == Init /\ [][NextRacing]_vars

\* A store that holds, under the key of the call, a text some other writer left
InitForeign ==
  /\ CodecIdle
  /\ CatalogIdle
  /\ FactoryIdle
  /\ ConnIdle
  /\ pc = [c \in Callers |-> "idle"]
  /\ call = [c \in Callers |-> NoArgs]
  /\ ret = [c \in Callers |-> NoResult]
  /\ trace = [c \in Callers |-> NoTrace]
  /\ \E a \in RacingCallArgs : \E v \in ForeignValues :
       store = {[key |-> CacheKey(a), value |-> v, ttl |-> DefaultTTL]}
  /\ expired = FALSE
  /\ prev = NoPrev
  /\ completed = 0

SingleCall(c) == CallWith(c, RacingCallArgs)

NextForeign ==
  \/ \E c \in ActiveCallers :
       \/ SingleCall(c) \/ CacheGet(c) \/ FuncCreate(c) \/ FuncConnect(c)
       \/ FuncRun(c) \/ FuncDisconnect(c) \/ CacheSet(c) \/ Return(c)
  \/ Expire

SpecForeign == InitForeign /\ [][NextForeign]_vars


\* ------------------------------------------------- claims: cache and service
\* The call of caller c is about to return and the call before it had the same
\* arguments, cache enabled, with no Redis error in either call and no entry
\* expired during the first call, between the two or during the second.
C2_SecondOfTwo(c) ==
  /\ pc[c] = "done"
  /\ completed >= 1
  /\ call[c].op = "execute_query_with_cache"
  /\ call[c].cache_enabled
  /\ prev.args = call[c]
  /\ ~prev.trace.readFailed /\ ~prev.trace.writeFailed
  /\ ~trace[c].readFailed /\ ~trace[c].writeFailed
  /\ ~prev.trace.expired /\ ~trace[c].gap /\ ~expired

\* C2 (as claimed): of two consecutive identical cache-enabled calls the function
\* is invoked once, by the first; the second returns cached = true and a result
\* otherwise equal to the first call's.
C2_CacheIdempotence ==
  \A c \in ActiveCallers :
    C2_SecondOfTwo(c) =>
      /\ trace[c].invoked = 0
      /\ prev.trace.invoked <= 1
      /\ ~ret[c].raised
      /\ ret[c].value.cached = TRUE
      /\ [ret[c].value EXCEPT !.cached = FALSE]
           = [prev.result.value EXCEPT !.cached = FALSE]

\* C3: a cache-disabled call invokes the function (and, for a supported tag, the
\* connector's connect) once per call and neither reads nor writes the store.
C3_CacheBypass ==
  \A c \in ActiveCallers :
    (pc[c] = "done" /\ ~call[c].cache_enabled) =>
      /\ trace[c].invoked = 1
      /\ (trace[c].created = 1 => trace[c].connects = 1)
      /\ trace[c].reads = 0
      /\ trace[c].writes = 0
      /\ (completed >= 1 /\ prev.args = call[c] =>
            prev.trace.invoked + trace[c].invoked = 2)

C3_Witness ==
  /\ pc[1] = "done" /\ ~call[1].cache_enabled
  /\ completed = 1 /\ prev.args = call[1]
  /\ prev.trace.invoked = 1 /\ trace[1].invoked = 1
  /\ trace[1].connects = 1

\* C4: when Redis fails on the read, on the write or on both, a cache-enabled
\* call returns exactly what the function returned, with cached = false, and
\* nothing is raised.
C4_StoreFailureHarmless ==
  \A c \in ActiveCallers :
    (pc[c] = "done" /\ call[c].cache_enabled
       /\ (trace[c].readFailed \/ trace[c].writeFailed)) =>
      /\ ~ret[c].raised
      /\ trace[c].invoked = 1
      /\ ret[c] = trace[c].live
      /\ ret[c].value.cached = FALSE

C4_Witness ==
  /\ pc[1] = "done" /\ call[1].cache_enabled
  /\ trace[1].readFailed /\ trace[1].writeFailed
  /\ ~ret[1].raised
  /\ ret[1].value.status = "success"
  /\ ret[1].value.cached = FALSE

\* C5 (as claimed): no service call returns while its connector still holds an
\* open connection.
C5_ClosedOnReturn ==
  \A c \in ActiveCallers :
    pc[c] = "done" => connector[c].connection \notin live

\* C6: no exception escapes a service function: a failure of get_db_connector,
\* connect, execute_query / get_ddl or disconnect comes back as status "error"
\* with the error's text, anything else as status "success".
C6_NoEscape ==
  \A c \in ActiveCallers :
    (pc[c] \in {"write", "done"} /\ trace[c].invoked = 1) =>
      /\ ~trace[c].live.raised
      /\ ~ret[c].raised
      /\ IF trace[c].failed
         THEN /\ trace[c].live.value.status = "error"
              /\ trace[c].live.value.error = trace[c].error
         ELSE trace[c].live.value.status = "success"

C6_Witness ==
  /\ pc[1] = "done"
  /\ trace[1].invoked = 1 /\ trace[1].disconnects = 1 /\ trace[1].failed
  /\ ret[1].value.status = "error"
  /\ ret[1].value.error = Msg_close

\* The call of caller c has computed its key, as the call before it did
C20_TwoKeyedCalls(c) ==
  /\ pc[c] # "idle"
  /\ completed >= 1
  /\ call[c].cache_enabled
  /\ prev.args.cache_enabled

C20_SameArguments(a, b) ==
  /\ a.connection_string = b.connection_string
  /\ a.db_type = b.db_type
  /\ a.subject = b.subject

\* C20: the cache key is a function of the operation name and the arguments
\* with cache_enabled and cache_ttl left out: two calls of one operation that
\* differ only in cache_ttl have the same key, and calls of different
\* operations or with different arguments have different keys.
C20_KeyOfNameAndArguments ==
  \A c \in ActiveCallers :
    C20_TwoKeyedCalls(c) =>
      /\ (CacheKey(call[c]) = CacheKey(prev.args))
           <=> (call[c].op = prev.args.op /\ C20_SameArguments(call[c], prev.args))
      /\ \A e \in store : e.key = CacheKey(prev.args) /\ call[c].op = prev.args.op
                          /\ C20_SameArguments(call[c], prev.args)
                          => e \in Entry(CacheKey(call[c]))

\* A call with cache_ttl 60 returns the entry that the same call with
\* cache_ttl 3600 stored
C20_Witness ==
  /\ C20_TwoKeyedCalls(1)
  /\ pc[1] = "done"
  /\ prev.args.cache_ttl = DefaultTTL
  /\ call[1].cache_ttl = 60
  /\ call[1].op = prev.args.op
  /\ C20_SameArguments(call[1], prev.args)
  /\ prev.trace.writes = 1 /\ ~prev.trace.writeFailed
  /\ trace[1].invoked = 0
  /\ ~ret[1].raised
  /\ ret[1].value.cached

\* Two calls that differ in the operation only, with different keys
C20_WitnessOperations ==
  /\ C20_TwoKeyedCalls(1)
  /\ call[1].op # prev.args.op
  /\ call[1].db_type = prev.args.db_type
  /\ CacheKey(call[1]) # CacheKey(prev.args)

\* Both callers are about to return from the first calls made, on a store that
\* was empty, with one key; both missed and both executed
C21_BothMissed ==
  /\ completed = 0
  /\ \A c \in Callers :
       /\ pc[c] = "done"
       /\ call[c].cache_enabled
       /\ trace[c].reads = 1
       /\ trace[c].invoked = 1
  /\ CacheKey(call[1]) = CacheKey(call[2])

C21_Stored(c) ==
  [key |-> CacheKey(call[c]),
   value |-> json_dumps([ret[c].value EXCEPT !.cached = FALSE]),
   ttl |-> call[c].cache_ttl]

C21_EachOwnResult ==
  C21_BothMissed =>
    /\ \A c \in Callers :
         /\ ~ret[c].raised
         /\ ret[c] = trace[c].live
         /\ ret[c].value.cached = FALSE
    /\ Entry(CacheKey(call[1])) \subseteq {C21_Stored(1), C21_Stored(2)}
    /\ (~expired /\ \A c \in Callers : ~trace[c].writeFailed)
         => Entry(CacheKey(call[1])) # {}

C21_WriteReplaces ==
  \A c \in Callers :
    (pc[c] = "write" /\ pc'[c] = "done" /\ ~trace'[c].writeFailed)
      => {e \in store' : e.key = CacheKey(call[c])} = {C21_Stored(c)}

\* C21: nothing keeps two concurrent callers with one key from both missing and
\* both executing the operation; each write replaces the entry of the key, so
\* the store ends with the value of the write that landed last, and each caller
\* returns its own live result with cached = false.
C21_NoSingleFlight == [][C21_WriteReplaces]_vars /\ []C21_EachOwnResult

\* Both callers missed on the empty store, executed, got different rows and
\* wrote; the store holds the second caller's value
C21_Witness ==
  /\ C21_BothMissed
  /\ \A c \in Callers : trace[c].writes = 1 /\ ~trace[c].writeFailed
                        /\ ret[c].value.status = "success"
  /\ ret[1] # ret[2]
  /\ store = {C21_Stored(2)}

\* The call of caller c carries a dialect tag that is none of the five known
\* ones in any letter case
C22_UnknownTag(c) ==
  /\ call[c].op # "none"
  /\ Lower(call[c].db_type) \notin
       {Tag_fabric, Tag_odbc, Tag_microsoft_fabric, Tag_postgres, Tag_postgresql}

\* C22: a service call with an unknown dialect tag never reaches a Connector:
\* none is constructed, no connect, execute_query / get_ddl or disconnect is
\* performed, and the function's result is the unsupported-dialect error.
C22_UnknownTagStopsEarly ==
  \A c \in ActiveCallers :
    C22_UnknownTag(c) =>
      /\ pc[c] \notin {"connect", "run", "disconnect"}
      /\ connector[c] = NoConnector
      /\ trace[c].created = 0
      /\ trace[c].connects = 0
      /\ trace[c].runs = 0
      /\ trace[c].disconnects = 0
      /\ trace[c].invoked = 1 =>
           /\ ~trace[c].live.raised
           /\ trace[c].live.value.status = "error"
           /\ trace[c].live.value.error = UnsupportedPrefix \o call[c].db_type
           /\ pc[c] = "done" /\ ~call[c].cache_enabled => ret[c] = trace[c].live

\* execute_query_with_cache(..., "bogus", ...) has returned the error
C22_Witness ==
  /\ C22_UnknownTag(1)
  /\ pc[1] = "done"
  /\ trace[1].invoked = 1
  /\ ret[1].value.status = "error"
  /\ ret[1].value.error = UnsupportedPrefix \o <<98, 111, 103, 117, 115>>
  /\ live = {}

\* Whitespace-separated key=value pairs: every part between blanks holds a "="
C23_KeyValuePairs(s) ==
  /\ s # <<>>
  /\ ~Contains(s, <<58, 47, 47>>)
  /\ \A i \in 1..Len(s) : \A j \in i..Len(s) :
       (/\ \A k \in i..j : s[k] # 32
        /\ (i = 1 \/ s[i - 1] = 32)
        /\ (j = Len(s) \/ s[j + 1] = 32))
         => \E k \in i..j : s[k] = 61

\* scheme://[user[:password]@]host[:port]/database, with no "=" in it
C23_Uri(s) == UriMatches(s) /\ \A i \in 1..Len(s) : s[i] # 61

\* C23 (as claimed): PostgresConnector.connect reaches the driver only with a
\* descriptor that is key=value pairs or a URI; any other text, a URI holding a
\* "=" included, fails in the parser before the driver is asked to connect.
C23_MalformedStopsBeforeDriver ==
  (/\ last.op = "connect"
   /\ connector[1].kind = "PostgresConnector"
   /\ ~C23_KeyValuePairs(connector[1].connection_string)
   /\ ~C23_Uri(connector[1].connection_string))
    => last.raised /\ ~last.attempted

\* C24 (as claimed): over any sequence of connect, execute_query, get_ddl and
\* disconnect calls on a Connector object, at most one driver connection that
\* it opened is open, and it is the one the object holds.
C24_AtMostOneLive ==
  connector[1].kind # "none" =>
    /\ Cardinality(live) <= 1
    /\ live \subseteq {connector[1].connection}

\* The read of caller c's cache-enabled call failed, or found a text that
\* json.loads or the cached flag assignment rejects
C25_ReadUnusable(c) ==
  /\ call[c].cache_enabled
  /\ trace[c].reads = 1
  /\ trace[c].readFailed \/ trace[c].unparsed

C25_Returns ==
  \A c \in ActiveCallers :
    (C25_ReadUnusable(c) /\ pc[c] = "done") =>
      /\ trace[c].invoked = 1
      /\ ~ret[c].raised
      /\ ret[c] = trace[c].live
      /\ ret[c].value.cached = FALSE
      /\ trace[c].writes = 1

C25_Writes ==
  \A c \in ActiveCallers :
    (C25_ReadUnusable(c) /\ pc[c] = "write" /\ pc'[c] = "done"
       /\ ~trace'[c].writeFailed)
      => {e \in store' : e.key = CacheKey(call[c])}
           = {[key |-> CacheKey(call[c]),
               value |-> json_dumps([ret[c].value EXCEPT !.cached = FALSE]),
               ttl |-> call[c].cache_ttl]}

\* C25: with the cache on, a failed store read and a stored value that cannot
\* be used are a miss: the function is invoked once, its live result is
\* returned with cached = false, and a write of it under the same key with the
\* call's TTL is attempted before the call returns.
C25_UnusableReadIsMiss == []C25_Returns /\ [][C25_Writes]_vars

\* The stored text was not a JSON dict; the call executed the query and
\* replaced it with its result
C25_Witness ==
  /\ pc[1] = "done"
  /\ C25_ReadUnusable(1)
  /\ trace[1].unparsed
  /\ trace[1].invoked = 1
  /\ ret[1].value.status = "success"
  /\ ~trace[1].writeFailed
  /\ \E e \in store : e.key = CacheKey(call[1]) /\ LoadsAsDict(e.value)

\* The read failed and the call went on as after a miss
C25_WitnessReadFailed ==
  /\ pc[1] = "done"
  /\ C25_ReadUnusable(1)
  /\ trace[1].readFailed
  /\ trace[1].invoked = 1 /\ trace[1].writes = 1

\* C26: nothing is retried.  Within one service call the Connector is created
\* at most once, connect, the query step and disconnect are each attempted at
\* most once, no step follows a failed one, and the failure is the call's
\* result.
C26_NoRetry ==
  \A c \in ActiveCallers :
    /\ trace[c].invoked <= 1
    /\ trace[c].created <= 1
    /\ trace[c].connects <= 1
    /\ trace[c].runs <= 1
    /\ trace[c].disconnects <= 1
    /\ trace[c].reads <= 1
    /\ trace[c].writes <= 1
    /\ trace[c].failed =>
         /\ pc[c] \in {"write", "done"}
         /\ trace[c].connects >= trace[c].runs
         /\ trace[c].runs >= trace[c].disconnects
         /\ ~ret[c].raised
         /\ ret[c].value.status = "error"
         /\ ret[c].value.error = trace[c].error

\* connect() failed: the call returns that error, with no query step and no
\* second connect
C26_Witness ==
  /\ pc[1] = "done"
  /\ trace[1].failed
  /\ trace[1].created = 1 /\ trace[1].connects = 1
  /\ trace[1].runs = 0 /\ trace[1].disconnects = 0
  /\ ret[1].value.status = "error"
  /\ ret[1].value.error = Msg_connect_pg \o Msg_refused

\* A wildcard table request whose listing query and every later query succeeded
C27_WildcardCall ==
  /\ answer.op = "get_ddl"
  /\ request.object_name = Wildcard
  /\ LowerToken(request.object_type) = "table"
  /\ \E i \in 1..Len(answer.queries) : answer.queries[i].q = "tables"
  /\ \A i \in 1..Len(answer.queries) :
       answer.queries[i].q \in {"tables", "columns", "primary_key", "foreign_keys"}
         => ~answer.queries[i].ans.raised

\* C27 (as claimed): a wildcard table request ends for every finite listing with
\* one single-table text per listed name, also when a listed table is named "*".
C27_WildcardTerminates ==
  C27_WildcardCall =>
    /\ ~answer.raised
    /\ Len(answer.blocks) = Len(C15_Listed)
    /\ \A i \in 1..Len(answer.blocks) : answer.blocks[i].name = C15_Listed[i]

\* The call of caller c is about to return; the call before it had the same
\* arguments, cache on, and returned an error result; Redis answered in both
\* and nothing expired
C28_AfterError(c) ==
  /\ pc[c] = "done"
  /\ completed >= 1
  /\ call[c].cache_enabled
  /\ prev.args = call[c]
  /\ prev.result.value.status = "error"
  /\ ~prev.trace.readFailed /\ ~prev.trace.writeFailed
  /\ ~trace[c].readFailed /\ ~trace[c].writeFailed
  /\ ~prev.trace.expired /\ ~trace[c].gap /\ ~expired

\* C28: an error result is stored like a success: the next call with the same
\* arguments returns the stored error with cached = true and neither invokes
\* the function nor touches a Connector.
C28_ErrorsAreCached ==
  \A c \in ActiveCallers :
    C28_AfterError(c) =>
      /\ prev.trace.invoked = 1 => prev.trace.writes = 1
      /\ trace[c].invoked = 0
      /\ trace[c].created = 0 /\ trace[c].connects = 0
      /\ trace[c].runs = 0 /\ trace[c].disconnects = 0
      /\ trace[c].writes = 0
      /\ ~ret[c].raised
      /\ ret[c].value.status = "error"
      /\ ret[c].value.cached = TRUE
      /\ [ret[c].value EXCEPT !.cached = FALSE]
           = [prev.result.value EXCEPT !.cached = FALSE]

\* The first call's statement was rejected; the second returns that error from
\* the store
C28_Witness ==
  /\ C28_AfterError(1)
  /\ prev.trace.invoked = 1 /\ prev.trace.runs = 1 /\ prev.trace.failed
  /\ prev.result.value.error = Msg_rejected
  /\ trace[1].invoked = 0
  /\ ret[1].value.error = Msg_rejected
  /\ ret[1].value.cached

C29_Key(c) == CacheKey(call[c])

C29_Held(c) == {e \in store : e.key = C29_Key(c)}

\* What a step of caller c's cache-enabled call does to the store
C29_Steps ==
  \A c \in ActiveCallers :
    /\ (pc[c] = "lookup" /\ pc'[c] = "done")
         => /\ C29_Held(c) # {}
            /\ store' = store
            /\ trace'[c].invoked = 0
            /\ ret'[c].value.cached = TRUE
    /\ (pc[c] = "lookup" /\ pc'[c] # "lookup" /\ ~trace'[c].readFailed)
         => (pc'[c] = "done" <=> \E e \in C29_Held(c) : "json" \in DOMAIN e.value)
    /\ (pc[c] = "lookup" /\ pc'[c] = "func") => trace'[c].invoked = 0
    /\ (pc[c] = "write" /\ pc'[c] = "done" /\ ~trace'[c].writeFailed)
         => {e \in store' : e.key = C29_Key(c)}
              = {[key |-> C29_Key(c),
                  value |-> json_dumps([ret[c].value EXCEPT !.cached = FALSE]),
                  ttl |-> call[c].cache_ttl]}

C29_Calls ==
  \A c \in ActiveCallers :
    (pc[c] = "done" /\ call[c].cache_enabled) =>
      /\ trace[c].reads = 1
      /\ trace[c].invoked = 0 => trace[c].writes = 0 /\ ret[c].value.cached = TRUE
      /\ trace[c].invoked = 1 => trace[c].writes = 1

\* C29: a hit leaves the store as it is - the function is not invoked and the
\* entry is neither rewritten nor given a new expiry; a call that finds no
\* entry under its key, as after the TTL has elapsed, invokes the function and
\* writes a fresh entry.
C29_HitLeavesStore == [][C29_Steps]_vars /\ []C29_Calls

\* The entry of the first call expired; the second call with the same
\* arguments executed again and stored a fresh entry
C29_Witness ==
  /\ pc[1] = "done"
  /\ completed = 1
  /\ call[1].cache_enabled
  /\ prev.args = call[1]
  /\ prev.trace.writes = 1 /\ ~prev.trace.writeFailed
  /\ trace[1].gap
  /\ ~trace[1].readFailed /\ ~trace[1].writeFailed
  /\ trace[1].invoked = 1 /\ trace[1].writes = 1
  /\ C29_Held(1) # {}

\* The second call was a hit: nothing invoked, nothing written
C29_WitnessHit ==
  /\ pc[1] = "done"
  /\ completed = 1
  /\ prev.args = call[1]
  /\ trace[1].reads = 1 /\ trace[1].invoked = 0 /\ trace[1].writes = 0
  /\ ret[1].value.cached
  /\ C29_Held(1) # {}

\* ------------------------------------------------------------------- C30
\* What caller c's call is about to return
C30_Flag(c) ==
  /\ ~ret[c].raised
  /\ "cached" \in DOMAIN ret[c].value
  /\ ret[c].value.cached <=> trace[c].invoked = 0

\* What the store holds: every entry was written by the wrapper
C30_Stored ==
  \A e \in store : LoadsAsDict(e.value) /\ json_loads(e.value).cached = FALSE

\* The result returned after a write is the object the function returned
C30_LiveKept(c) ==
  trace[c].writes > 0 =>
    /\ ret[c] = trace[c].live
    /\ ret[c].value.cached = FALSE

\* C30: the result a call returns has cached = true exactly when the service
\* function was not invoked during that call; every value written to the store
\* carries cached = false; and the result returned after a write is the live
\* result the function returned, unchanged.
C30_CachedFlag ==
  /\ C30_Stored
  /\ \A c \in ActiveCallers :
       pc[c] = "done" => C30_Flag(c) /\ C30_LiveKept(c)

\* A hit: the call returns cached = true without invoking the function, read
\* from an entry that the previous call wrote with cached = false while
\* returning its own live result with cached = false
C30_Witness ==
  /\ pc[1] = "done"
  /\ completed = 1
  /\ prev.args = call[1]
  /\ prev.trace.invoked = 1 /\ prev.trace.writes = 1 /\ ~prev.trace.writeFailed
  /\ prev.result.value.cached = FALSE
  /\ trace[1].invoked = 0
  /\ ret[1].value.cached = TRUE
  /\ \E e \in Entry(CacheKey(call[1])) : json_loads(e.value).cached = FALSE

\* A miss: the function was invoked, its result stored and returned live
C30_WitnessWrite ==
  /\ pc[1] = "done"
  /\ trace[1].invoked = 1 /\ trace[1].writes = 1 /\ ~trace[1].writeFailed
  /\ ret[1] = trace[1].live
  /\ ret[1].value.cached = FALSE
  /\ Entry(CacheKey(call[1])) # {}

====
